---- MODULE Spec2Model ----
(***************************************************************************)
(* A model of VirtualMachineBase (starkware/cairo/lang/vm/                 *)
(* virtual_machine_base.py): the scope stack, the hint loop of step(), the  *)
(* auto-deduction registry and the end-of-run verifier.                     *)
(*                                                                          *)
(* MemoryDict, ValidatedMemoryDict and the concrete run_instruction live    *)
(* outside the files modelled here; the definitions that stand for them     *)
(* follow the written specification of the VM and say so.                   *)
(***************************************************************************)
EXTENDS Integers, Sequences, FiniteSets, TLC

VARIABLES
    memory,                      \* run_context.memory / validated_memory: address -> value
    pc, ap, fp,                  \* run_context registers
    trace,                       \* list of TraceEntry
    current_step,                \* number of instructions executed so far
    exec_scopes,                 \* the scope stack
    static_locals,               \* static values available in all scopes
    hints,                       \* pc -> list of CompiledHint
    auto_deduction,              \* segment index -> list of rules
    skip_instruction_execution,  \* the flag a hint sets to skip the instruction
    rule_env,                    \* host state that the registered rules read
    in_step,                     \* step() is between its first and last statement
    hint_index,                  \* position of the for loop of step()
    step_hints,                  \* the list the for loop of step() iterates
    result,                      \* outcome of the last completed call
    invoked,                     \* rules called by the last call, in call order
    hint_log,                    \* what the current/last step() ran, in order
    hint_bindings,               \* the bindings handed to the last executed hint
    pre,                         \* registers, trace and memory when step() started
    hint_pc_and_index,           \* hint id -> (pc, index)
    instruction_debug_info,      \* pc -> InstructionLocation
    debug_file_contents,         \* file name -> contents
    validation_rules,            \* segment index -> list of validation rules
    validated_addresses,         \* the addresses that rules have vetted
    tb,                          \* the call of get_traceback_entries / as_vm_exception in progress
    db,                          \* DictStorage.db
    cache,                       \* CachedStorage.cache
    tasks                        \* the calls on the CachedStorage that run concurrently

\* The registries that load_program fills besides self.hints.
loader_vars == << hint_pc_and_index, instruction_debug_info, debug_file_contents >>
\* The state of the validated memory besides the memory itself.
validation_vars == << validation_rules, validated_addresses >>
\* The storages.
storage_vars == << db, cache, tasks >>

vars == << memory, pc, ap, fp, trace, current_step, exec_scopes, static_locals,
           hints, auto_deduction, skip_instruction_execution, rule_env,
           in_step, hint_index, step_hints, result, invoked, hint_log,
           hint_bindings, pre, loader_vars, validation_vars, tb, storage_vars >>

----------------------------------------------------------------------------
(* Bounds of the model. *)

MaxSteps == 2        \* instructions executed in one run
MaxScopes == 2       \* depth of the scope stack
MaxRules == 2        \* rules registered for one segment
MaxHintIds == 7      \* hint ids after which no further program is loaded
OffsetBits == 3      \* width of an offset field of an encoded instruction
MaxTrace == 3        \* entries of a trace handed to get_perm_range_check_limits
MaxCacheSize == 1    \* max_size of the CachedStorage
MaxTasks == 3        \* calls on the CachedStorage gathered into one event loop

----------------------------------------------------------------------------
(* MaybeRelocatable values: a field element, a relocatable address or None. *)

NoneV == [kind |-> "none", seg |-> 0, off |-> 0]
IntV(n) == [kind |-> "int", seg |-> 0, off |-> n]
RelV(s, o) == [kind |-> "rel", seg |-> s, off |-> o]

\* isinstance(addr, RelocatableValue)
IsRelocatable(addr) == addr.kind = "rel"

\* addr + n for a relocatable address
AddOff(addr, n) == [addr EXCEPT !.off = @ + n]

\* The segments of a run: the program, the execution segment (ap, fp) and one
\* builtin segment.
ProgramSegment == 0
ExecutionSegment == 1
BuiltinSegment == 2

Prime == 7                 \* program.prime
OtherPrime == Prime + 4    \* the prime of a program compiled for another field

FieldValues == {IntV(1), IntV(2)}

ProgramAddrs == {RelV(ProgramSegment, o) : o \in 0..1}
ExecutionAddrs == {RelV(ExecutionSegment, o) : o \in 0..MaxSteps}
BuiltinAddrs == {RelV(BuiltinSegment, o) : o \in 0..1}
IntAddrs == {IntV(0)}
Addrs == ProgramAddrs \cup ExecutionAddrs \cup BuiltinAddrs \cup IntAddrs

\* The addresses that callers pass to set and to deduce_memory_cell.
UserAddrs == BuiltinAddrs \cup IntAddrs
DeduceAddrs == UserAddrs \cup {RelV(ExecutionSegment, 0)}

\* The addresses that hints write to: the first cell of the execution
\* segment and the builtin cell that the program reads.
HintAddrs == {RelV(ExecutionSegment, 0), RelV(BuiltinSegment, 0)}

----------------------------------------------------------------------------
(* MemoryDict as the VM uses it: get, and the write-once set.               *)

\* memory.get(addr): None for an address that was never written
MemGet(mem, addr) == IF addr \in DOMAIN mem THEN mem[addr] ELSE NoneV

\* memory[addr] = value succeeds on a fresh cell and on a consistent rewrite
MemSetOk(mem, addr, value) == MemGet(mem, addr) \in {NoneV, value}

\* memory after memory[addr] = value; a failed set leaves it as it was
MemSet(mem, addr, value) ==
    IF MemSetOk(mem, addr, value) THEN [mem EXCEPT ![addr] = value] ELSE mem

\* the addresses that hold a value (iteration over the memory)
Written(mem) == {a \in DOMAIN mem : mem[a] # NoneV}

----------------------------------------------------------------------------
(* Scopes: dictionaries from names to what they are bound to.               *)

VmNames == {"memory", "ap", "fp", "pc", "current_step", "ids",
            "vm_load_program", "vm_enter_scope", "vm_exit_scope"}
\* "field_helpers" stands for fadd, fsub, fmul, fdiv, fpow, fis_quad_residue,
\* fsqrt and safe_div, which the VM treats alike.
StaticNames == {"PRIME", "field_helpers"}
BuiltinNames == {"range_check_builtin"}
UserNames == {"x"}
Names == VmNames \cup StaticNames \cup BuiltinNames \cup UserNames

Unbound == [kind |-> "unbound", val |-> NoneV]
Bound(k, v) == [kind |-> k, val |-> v]

EmptyDict == [n \in Names |-> Unbound]
Keys(d) == {n \in Names : d[n] # Unbound}

\* {**a, **b} and a.update(b): the entries of b win
Update(a, b) == [n \in Names |-> IF b[n] # Unbound THEN b[n] ELSE a[n]]

\* del d[name]
Del(d, name) == [d EXCEPT ![name] = Unbound]

\* self.builtin_runners
builtin_runners ==
    [EmptyDict EXCEPT !["range_check_builtin"] = Bound("builtin_runner", NoneV)]

\* What the constructor adds to the caller's static_locals.
VmStaticLocals(prime) ==
    [n \in Names |->
        IF n = "PRIME" THEN Bound("value", IntV(prime))
        ELSE IF n \in StaticNames THEN Bound("field_helper", IntV(prime))
        ELSE Unbound]

\* __init__ letting the caller's static_locals win over its own.
InitStaticLocalsCallerWins(caller_locals, prime) ==
    Update(VmStaticLocals(prime), caller_locals)

\* self.static_locals as __init__ leaves it
InitStaticLocals(caller_locals, prime) == Update(caller_locals, VmStaticLocals(prime))

\* enter_scope starting the new scope from the variables of the scope on
\* top.
PushScopeInheriting(scopes, new_scope_locals) ==
    IF scopes = << >>
    THEN Append(scopes, Update(new_scope_locals, builtin_runners))
    ELSE Append(scopes, Update(Update(scopes[Len(scopes)], new_scope_locals),
                               builtin_runners))

\* The list enter_scope leaves in self.exec_scopes.
PushScope(scopes, new_scope_locals) ==
    Append(scopes, Update(new_scope_locals, builtin_runners))

\* exit_scope asserting only that the stack is not empty.
CanExitScopeAnyScope(scopes) == Len(scopes) > 0

\* The assertion of exit_scope.
CanExitScope(scopes) == Len(scopes) > 1

\* The list exit_scope leaves in self.exec_scopes.
PopScope(scopes) == SubSeq(scopes, 1, Len(scopes) - 1)

----------------------------------------------------------------------------
(* Auto-deduction rules.  A rule is host code called as rule(vm, addr);     *)
(* what it returns may depend on the address, on the VM's memory and on     *)
(* host state (rule_env).                                                   *)

\* "fixed" knows one cell of the builtin segment; "host" returns what the
\* host currently holds; "neighbour" copies the cell before addr.
Rules == {"fixed", "host", "neighbour"}
\* The segments that rules are registered for.
RuleSegments == {BuiltinSegment}

\* rule(self, addr, *args)
RuleValue(rule, env, mem, addr) ==
    CASE rule = "fixed" ->
            IF addr = RelV(BuiltinSegment, 0) THEN IntV(1) ELSE NoneV
      [] rule = "host" -> IntV(env)
      [] rule = "neighbour" ->
            IF addr.seg = BuiltinSegment /\ addr.off > 0
            THEN MemGet(mem, AddOff(addr, -1)) ELSE NoneV

\* self.auto_deduction.get(addr.segment_index, [])
RulesOf(deduction, addr) ==
    IF addr.seg \in DOMAIN deduction THEN deduction[addr.seg] ELSE << >>

\* The position of the last rule, from position i on, that returns a value
\* for addr; 0 when every rule returns None.
LastFiring(rules, i, env, mem, addr) ==
    LET firing == {j \in i..Len(rules) : RuleValue(rules[j], env, mem, addr) # NoneV}
    IN  IF firing = {} THEN 0 ELSE CHOOSE j \in firing : \A k \in firing : k <= j

\* The position of the first rule, from position i on, that returns a value
\* for addr; 0 when every rule returns None.
RECURSIVE FirstFiring(_, _, _, _, _)
FirstFiring(rules, i, env, mem, addr) ==
    IF i > Len(rules) THEN 0
    ELSE IF RuleValue(rules[i], env, mem, addr) # NoneV THEN i
    ELSE FirstFiring(rules, i + 1, env, mem, addr)

\* The rules deduce_memory_cell(addr) goes through.
DeduceRules(deduction, addr) ==
    IF ~IsRelocatable(addr) THEN << >> ELSE RulesOf(deduction, addr)

\* The loop of deduce_memory_cell storing the deduced value in the underlying
\* dictionary, past the check of the validated memory.
DeduceLoopOverwrite(rules, env, mem, addr) ==
    LET k == FirstFiring(rules, 1, env, mem, addr)
        value == RuleValue(rules[k], env, mem, addr)
    IN  IF k = 0
        THEN [ret |-> NoneV, err |-> "none", mem |-> mem, called |-> rules]
        ELSE [ret |-> value, err |-> "none", mem |-> [mem EXCEPT ![addr] = value],
              called |-> SubSeq(rules, 1, k)]

\* The loop of deduce_memory_cell over the rules: the value returned (ret),
\* the error raised (err), the memory it leaves (mem) and the rules it
\* called (called).
DeduceLoop(rules, env, mem, addr) ==
    LET k == FirstFiring(rules, 1, env, mem, addr)
        value == RuleValue(rules[k], env, mem, addr)
    IN  IF k = 0
        THEN [ret |-> NoneV, err |-> "none", mem |-> mem, called |-> rules]
        ELSE IF MemSetOk(mem, addr, value)
        THEN [ret |-> value, err |-> "none", mem |-> MemSet(mem, addr, value),
              called |-> SubSeq(rules, 1, k)]
        ELSE [ret |-> NoneV, err |-> "InconsistentMemory", mem |-> mem,
              called |-> SubSeq(rules, 1, k)]

\* deduce_memory_cell reading addr.segment_index of whatever it is given: an
\* address that is an int has none.
DeduceMemoryCellNoTypeCheck(deduction, env, mem, addr) ==
    IF IsRelocatable(addr)
    THEN DeduceLoop(RulesOf(deduction, addr), env, mem, addr)
    ELSE [ret |-> NoneV, err |-> "AttributeError", mem |-> mem, called |-> << >>]

\* deduce_memory_cell(addr)
DeduceMemoryCell(deduction, env, mem, addr) ==
    DeduceLoop(DeduceRules(deduction, addr), env, mem, addr)

\* self.check_eq(current, value): structural equality unless a subclass
\* overrides it
check_eq(current, value) == current = value

\* Rule i of addr's segment returns a value that differs from memory[addr].
Mismatch(deduction, env, mem, addr, i) ==
    LET value == RuleValue(RulesOf(deduction, addr)[i], env, mem, addr)
    IN  /\ value # NoneV
        /\ mem[addr] # value
        /\ ~check_eq(mem[addr], value)

\* verify_auto_deductions leaving the loop over the rules after the first.
VerifiedRulesFirstOnly(deduction, addr) ==
    IF ~IsRelocatable(addr) \/ RulesOf(deduction, addr) = << >> THEN {} ELSE {1}

\* The rules verify_auto_deductions checks for addr.
VerifiedRules(deduction, addr) ==
    IF ~IsRelocatable(addr) THEN {} ELSE 1..Len(RulesOf(deduction, addr))

\* The addresses at which verify_auto_deductions raises.
FailingAddrs(deduction, env, mem) ==
    {a \in Written(mem) :
        \E i \in VerifiedRules(deduction, a) : Mismatch(deduction, env, mem, a, i)}

\* The first rule of addr's segment whose value differs from memory[addr].
FirstMismatch(deduction, env, mem, addr) ==
    CHOOSE i \in VerifiedRules(deduction, addr) :
        /\ Mismatch(deduction, env, mem, addr, i)
        /\ \A j \in 1..(i - 1) : ~Mismatch(deduction, env, mem, addr, j)

----------------------------------------------------------------------------
(* The outcome of a call, as its caller sees it.                            *)

Res(op, err, ret, addr, cur) ==
    [op |-> op, err |-> err, ret |-> ret, addr |-> addr, cur |-> cur,
     cause |-> "none"]
\* A VmException that does not say which hint failed.
VmExceptionWithoutIndex(op, cause, at_pc, index) ==
    [op |-> op, err |-> "VmException", ret |-> NoneV, addr |-> at_pc,
     cur |-> NoneV, cause |-> cause]

\* VmException(pc=pc, inner_exc=cause, hint_index=hint_index)
VmException(op, cause, at_pc, index) ==
    [op |-> op, err |-> "VmException", ret |-> index, addr |-> at_pc,
     cur |-> NoneV, cause |-> cause]
Ok(op) == Res(op, "none", NoneV, NoneV, NoneV)
\* step() has not returned yet
Running == Res("step", "running", NoneV, NoneV, NoneV)
Fail(op, err) == Res(op, err, NoneV, NoneV, NoneV)

----------------------------------------------------------------------------
(* The program and construction.                                            *)

program_base == RelV(ProgramSegment, 0)

\* The instructions of the program, as the decoder returns them.
Opcodes == << "assert_imm", "copy_jmp" >>

\* program.data: one encoded instruction per cell of the program segment
ProgramData == [o \in 0..1 |-> IntV(o + 1)]

\* program.hints: pc offset -> the number of hints declared there
ProgramHints == [o \in 0..1 |-> 2 - o]

\* CompiledHint: the code object compiled under the file name <hint{hint_id}>
CompiledHint(hint_id) == [compiled |-> hint_id]

\* self.hints after load_hints has loaded the program into an empty registry
LoadedHints ==
    [a \in ProgramAddrs |->
        [i \in 1..ProgramHints[a.off] |->
            CompiledHint(i - 1 + (IF a.off = 0 THEN 0 ELSE ProgramHints[0]))]]

\* self.hints.get(pc, [])
HintsAt(registry, addr) ==
    IF addr \in DOMAIN registry THEN registry[addr] ELSE << >>

\* Python dictionaries as functions with a finite domain.
EmptyMap == [k \in {} |-> NoneV]
\* d[k] = v
DictSet(d, k, v) == [x \in DOMAIN d \cup {k} |-> IF x = k THEN v ELSE d[x]]
\* d.update(e)
DictUpdate(d, e) ==
    [x \in DOMAIN d \cup DOMAIN e |-> IF x \in DOMAIN e THEN e[x] ELSE d[x]]

\* InstructionLocation of the instruction at offset of the program called name
Location(name, offset) == [program |-> name, offset |-> offset]

\* program.debug_info; None is a record that is not present.
NoDebugInfo ==
    [present |-> FALSE, file_contents |-> EmptyMap, instruction_locations |-> EmptyMap]
DebugInfo(name, offsets) ==
    [present |-> TRUE,
     file_contents |-> [f \in {name} |-> name],
     instruction_locations |-> [o \in offsets |-> Location(name, o)]]

\* A Program: its prime, program.hints as items() yields them (the pc offset
\* and, for each hint declared there, whether its code compiles) and its
\* debug information.
HintItem(offset, codes) == [pc |-> offset, codes |-> codes]

\* The program the VM is constructed with.
MainProgram ==
    [name |-> "main", prime |-> Prime,
     hints |-> [i \in 1..2 |->
                  HintItem(i - 1, [j \in 1..ProgramHints[i - 1] |-> TRUE])],
     debug_info |-> DebugInfo("main", {0})]

\* The programs that are loaded into a running VM: a library compiled for
\* the VM's field, the same library compiled for another field, a program
\* without debug information and a program with a hint that does not compile.
LoadablePrograms ==
    {[name |-> "lib", prime |-> Prime,
      hints |-> << HintItem(0, << TRUE >>), HintItem(1, << TRUE >>) >>,
      debug_info |-> DebugInfo("lib", {0, 1})],
     [name |-> "foreign", prime |-> OtherPrime,
      hints |-> << HintItem(0, << TRUE >>), HintItem(1, << TRUE >>) >>,
      debug_info |-> DebugInfo("foreign", {0, 1})],
     [name |-> "stripped", prime |-> Prime,
      hints |-> << HintItem(1, << TRUE, TRUE >>) >>,
      debug_info |-> NoDebugInfo],
     [name |-> "broken", prime |-> Prime,
      hints |-> << HintItem(0, << TRUE, FALSE >>) >>,
      debug_info |-> DebugInfo("broken", {0})]}

\* The addresses programs are loaded at.
ProgramBases == {program_base, RelV(ProgramSegment, 1)}

\* The registries of a VM that load_program writes.
Loader(registry, ids, locations, files) ==
    [hints |-> registry, hint_pc_and_index |-> ids,
     instruction_debug_info |-> locations, debug_file_contents |-> files,
     err |-> "none", hint_index |-> NoneV]

\* load_debug_info(debug_info, at)
LoadDebugInfo(l, debug_info, at) ==
    IF ~debug_info.present THEN l
    ELSE [l EXCEPT
            !.debug_file_contents = DictUpdate(@, debug_info.file_contents),
            !.instruction_debug_info =
                DictUpdate(@, [a \in {AddOff(at, o) :
                                        o \in DOMAIN debug_info.instruction_locations}
                                 |-> debug_info.instruction_locations[a.off - at.off]])]

\* load_hints taking the position of the hint in its list as its id.
HintIdPerList(ids, h_index) == h_index

\* hint_id = len(self.hint_pc_and_index)
HintId(ids, h_index) == Cardinality(DOMAIN ids)

\* The inner loop of load_hints from position h_index (from 0) on: the
\* hints of one pc are given ids, recorded and compiled.  A hint that does
\* not compile ends the load with the VmException of compile_hint.
RECURSIVE CompileHints(_, _, _, _, _)
CompileHints(l, codes, h_index, at, compiled_hints) ==
    IF h_index = Len(codes)
    THEN [l EXCEPT !.hints = DictSet(@, at, compiled_hints)]
    ELSE LET hint_id == HintId(l.hint_pc_and_index, h_index)
             recorded == [l EXCEPT !.hint_pc_and_index =
                             DictSet(@, hint_id, [pc |-> at, index |-> h_index])]
         IN  IF ~codes[h_index + 1]
             THEN [recorded EXCEPT !.err = "SyntaxError",
                                   !.hint_index = IntV(h_index)]
             ELSE CompileHints(recorded, codes, h_index + 1, at,
                               Append(compiled_hints, CompiledHint(hint_id)))

\* load_hints(program, at): the outer loop from item number k on.
RECURSIVE LoadHints(_, _, _, _)
LoadHints(l, items, k, at) ==
    IF k > Len(items) THEN l
    ELSE LET done == CompileHints(l, items[k].codes, 0, AddOff(at, items[k].pc),
                                  << >>)
         IN  IF done.err # "none" THEN done ELSE LoadHints(done, items, k + 1, at)

\* load_program without its assertion on the prime.
PrimeMatchesAlways(vm_prime, program) == TRUE

\* The assertion of load_program.
PrimeMatches(vm_prime, program) == vm_prime = program.prime

\* load_program(program, at) on the registries l of a VM over vm_prime
LoadProgram(l, vm_prime, program, at) ==
    IF ~PrimeMatches(vm_prime, program)
    THEN [l EXCEPT !.err = "AssertionError"]
    ELSE LoadHints(LoadDebugInfo(l, program.debug_info, at), program.hints, 1, at)

\* The registries as __init__ leaves them for program.
ConstructedWith(program) ==
    LoadProgram(Loader(EmptyMap, EmptyMap, EmptyMap, EmptyMap), program.prime,
                program, program_base)
Constructed == ConstructedWith(MainProgram)

\* hint_locals and static_locals as callers pass them to the constructor
\* Locals of a caller or of a hint: a variable of its own and a PRIME of its own.
UserLocals == [EmptyDict EXCEPT !["x"] = Bound("value", IntV(1)),
                                !["PRIME"] = Bound("value", IntV(OtherPrime))]
CallerStatics == [EmptyDict EXCEPT !["PRIME"] = Bound("value", IntV(OtherPrime)),
                                   !["ids"] = Bound("caller", NoneV)]
ConstructorInputs ==
    {[hint_locals |-> EmptyDict, static_locals |-> EmptyDict],
     [hint_locals |-> UserLocals, static_locals |-> CallerStatics]}

\* new_scope_locals as callers and hints pass them to enter_scope
NewScopeLocals == {EmptyDict, UserLocals}

NoPre == [pc |-> NoneV, ap |-> NoneV, fp |-> NoneV, trace |-> << >>,
          memory |-> [a \in Addrs |-> NoneV], skip |-> FALSE]

\* The run context a run starts with: the program in its segment and empty
\* execution and builtin segments.
InitRunContext ==
    /\ memory = [a \in Addrs |->
                    IF a \in ProgramAddrs THEN ProgramData[a.off] ELSE NoneV]
    /\ pc = program_base
    /\ ap = RelV(ExecutionSegment, 0)
    /\ fp = RelV(ExecutionSegment, 0)

\* No instruction has run.
InitTrace ==
    /\ trace = << >>
    /\ current_step = 0

\* The registries as __init__ leaves them.
InitLoader ==
    /\ hints = LoadedHints
    /\ hint_pc_and_index = Constructed.hint_pc_and_index
    /\ instruction_debug_info = Constructed.instruction_debug_info
    /\ debug_file_contents = Constructed.debug_file_contents

\* The rest of the VM as __init__ leaves it.
InitMachine ==
    /\ \E args \in ConstructorInputs :
        /\ exec_scopes = PushScope(<< >>, args.hint_locals)
        /\ static_locals = InitStaticLocals(args.static_locals, Prime)
    /\ auto_deduction = [s \in RuleSegments |-> << >>]
    /\ skip_instruction_execution = FALSE
    /\ rule_env = 1
    /\ in_step = FALSE
    /\ hint_index = 0
    /\ step_hints = << >>
    /\ result = Ok("init")
    /\ invoked = << >>
    /\ hint_log = << >>
    /\ hint_bindings = EmptyDict
    /\ pre = NoPre

\* No validation rule is registered: in the runs of the interpreter the
\* validated memory is the write-once memory.
InitValidation ==
    /\ validation_rules = EmptyMap
    /\ validated_addresses = {}

\* No traceback is being reconstructed.
NoFrame == [fp |-> NoneV, prev_fp |-> NoneV, ret_pc |-> NoneV,
            instruction0 |-> NoneV, instruction1 |-> NoneV, call_pc |-> NoneV]
NoWalk ==
    [caller |-> "none", fp |-> NoneV, iterations |-> 0, entries |-> << >>,
     why |-> "idle", last |-> NoFrame, exc |-> "none", pc |-> NoneV,
     notes |-> [present |-> FALSE, items |-> << >>], hint_index |-> NoneV]

\* A call that has not been made yet.
NoTask == [op |-> "none", at |-> "idle", key |-> NoneV, value |-> NoneV,
           ret |-> NoneV, overlapped |-> FALSE]

\* Empty storages, and no call in progress.
InitStorage ==
    /\ db = EmptyMap
    /\ cache = << >>
    /\ tasks = [t \in 1..MaxTasks |-> NoTask]

Init ==
    /\ InitRunContext
    /\ InitTrace
    /\ InitLoader
    /\ InitMachine
    /\ InitValidation
    /\ tb = NoWalk
    /\ InitStorage

----------------------------------------------------------------------------
(* Calls made between steps.  hint_log, hint_bindings, pre and invoked       *)
(* describe the last call only: any other call starts them afresh.          *)

ForgetStep ==
    /\ hint_log' = << >>
    /\ hint_bindings' = EmptyDict
    /\ pre' = NoPre

\* enter_scope(new_scope_locals)
EnterScope ==
    /\ ~in_step
    /\ Len(exec_scopes) < MaxScopes
    /\ \E new_scope_locals \in NewScopeLocals :
            exec_scopes' = PushScope(exec_scopes, new_scope_locals)
    /\ result' = Ok("enter_scope")
    /\ ForgetStep
    /\ invoked' = << >>
    /\ UNCHANGED << memory, pc, ap, fp, trace, current_step, static_locals,
                    hints, auto_deduction, skip_instruction_execution,
                    rule_env, in_step, hint_index, step_hints >>
    /\ UNCHANGED << loader_vars, validation_vars, tb, storage_vars >>

\* exit_scope()
ExitScope ==
    /\ ~in_step
    /\ IF CanExitScope(exec_scopes)
       THEN /\ exec_scopes' = PopScope(exec_scopes)
            /\ result' = Ok("exit_scope")
       ELSE /\ exec_scopes' = exec_scopes
            /\ result' = Fail("exit_scope", "AssertionError")
    /\ ForgetStep
    /\ invoked' = << >>
    /\ UNCHANGED << memory, pc, ap, fp, trace, current_step, static_locals,
                    hints, auto_deduction, skip_instruction_execution,
                    rule_env, in_step, hint_index, step_hints >>
    /\ UNCHANGED << loader_vars, validation_vars, tb, storage_vars >>

\* validated_memory[addr] = value
SetMemory(addrs) ==
    /\ ~in_step
    /\ \E addr \in addrs, value \in FieldValues :
        /\ memory' = MemSet(memory, addr, value)
        /\ result' = IF MemSetOk(memory, addr, value)
                     THEN Res("set", "none", value, addr, memory[addr])
                     ELSE Res("set", "InconsistentMemory", value, addr, memory[addr])
    /\ ForgetStep
    /\ invoked' = << >>
    /\ UNCHANGED << pc, ap, fp, trace, current_step, exec_scopes,
                    static_locals, hints, auto_deduction,
                    skip_instruction_execution, rule_env, in_step,
                    hint_index, step_hints >>
    /\ UNCHANGED << loader_vars, validation_vars, tb, storage_vars >>

\* add_auto_deduction_rule(segment_index, rule)
AddAutoDeductionRule(rules) ==
    /\ ~in_step
    /\ \E segment_index \in RuleSegments, rule \in rules :
        /\ Len(auto_deduction[segment_index]) < MaxRules
        /\ auto_deduction' =
              [auto_deduction EXCEPT ![segment_index] = Append(@, rule)]
    /\ result' = Ok("add_auto_deduction_rule")
    /\ ForgetStep
    /\ invoked' = << >>
    /\ UNCHANGED << memory, pc, ap, fp, trace, current_step, exec_scopes,
                    static_locals, hints, skip_instruction_execution,
                    rule_env, in_step, hint_index, step_hints >>
    /\ UNCHANGED << loader_vars, validation_vars, tb, storage_vars >>

\* The host state read by the "host" rule changes.
HostChange ==
    /\ ~in_step
    /\ rule_env' = 3 - rule_env
    /\ result' = Ok("host_change")
    /\ ForgetStep
    /\ invoked' = << >>
    /\ UNCHANGED << memory, pc, ap, fp, trace, current_step, exec_scopes,
                    static_locals, hints, auto_deduction,
                    skip_instruction_execution, in_step, hint_index,
                    step_hints >>
    /\ UNCHANGED << loader_vars, validation_vars, tb, storage_vars >>

\* deduce_memory_cell(addr)
Deduce(addrs) ==
    /\ ~in_step
    /\ \E addr \in addrs :
        LET d == DeduceMemoryCell(auto_deduction, rule_env, memory, addr)
        IN  /\ memory' = d.mem
            /\ invoked' = d.called
            /\ result' = Res("deduce_memory_cell", d.err, d.ret, addr, memory[addr])
    /\ ForgetStep
    /\ UNCHANGED << pc, ap, fp, trace, current_step, exec_scopes,
                    static_locals, hints, auto_deduction,
                    skip_instruction_execution, rule_env, in_step,
                    hint_index, step_hints >>
    /\ UNCHANGED << loader_vars, validation_vars, tb, storage_vars >>

\* The outcomes of verify_auto_deductions(); the memory is iterated in an
\* order the VM does not fix, so the first failing address is any of them.
VerifyOutcomes(op) ==
    LET failing == FailingAddrs(auto_deduction, rule_env, memory)
    IN  IF failing = {}
        THEN {Ok(op)}
        ELSE {Res(op, "InconsistentAutoDeduction",
                  RuleValue(RulesOf(auto_deduction, a)
                                [FirstMismatch(auto_deduction, rule_env, memory, a)],
                            rule_env, memory, a),
                  a, memory[a]) : a \in failing}

\* verify_auto_deductions()
VerifyAutoDeductions ==
    /\ ~in_step
    /\ result' \in VerifyOutcomes("verify_auto_deductions")
    /\ ForgetStep
    /\ invoked' = << >>
    /\ UNCHANGED << memory, pc, ap, fp, trace, current_step, exec_scopes,
                    static_locals, hints, auto_deduction,
                    skip_instruction_execution, rule_env, in_step,
                    hint_index, step_hints >>
    /\ UNCHANGED << loader_vars, validation_vars, tb, storage_vars >>

\* end_run without its check of the scope stack.
EndRunOutcomeNoScopeCheck(v, scopes) ==
    IF v.err # "none" THEN v ELSE Ok("end_run")

\* The outcome of end_run() once verify_auto_deductions() has returned v.
EndRunOutcome(v, scopes) ==
    IF v.err # "none" THEN v
    ELSE IF Len(scopes) # 1 THEN Fail("end_run", "UnbalancedScope")
    ELSE Ok("end_run")

\* end_run()
EndRun ==
    /\ ~in_step
    /\ \E v \in VerifyOutcomes("end_run") :
            result' = EndRunOutcome(v, exec_scopes)
    /\ ForgetStep
    /\ invoked' = << >>
    /\ UNCHANGED << memory, pc, ap, fp, trace, current_step, exec_scopes,
                    static_locals, hints, auto_deduction,
                    skip_instruction_execution, rule_env, in_step,
                    hint_index, step_hints >>
    /\ UNCHANGED << loader_vars, validation_vars, tb, storage_vars >>

----------------------------------------------------------------------------
(* step(): the hint loop, then decode and run.                              *)

\* What a hint does when it is executed.  A hint is host code: it may write
\* to memory, push or pop a scope, bind a name of its scope, ask for the
\* instruction to be skipped, or raise.
HintEffects ==
    {[kind |-> k, addr |-> NoneV, value |-> NoneV, locals |-> EmptyDict] :
        k \in {"nop", "exit", "skip", "raise", "bind"}}
    \cup {[kind |-> "write", addr |-> a, value |-> v, locals |-> EmptyDict] :
            a \in HintAddrs, v \in FieldValues}
    \cup {[kind |-> "enter", addr |-> NoneV, value |-> NoneV, locals |-> l] :
            l \in NewScopeLocals}

\* The names step() binds in exec_locals before it adds the static locals.
VmBindings(hint, mem_ref, r_pc, r_ap, r_fp, step_no) ==
    [n \in Names |->
        CASE n = "memory" -> Bound("validated_memory", mem_ref)
          [] n = "ap" -> Bound("value", r_ap)
          [] n = "fp" -> Bound("value", r_fp)
          [] n = "pc" -> Bound("value", r_pc)
          [] n = "current_step" -> Bound("value", IntV(step_no))
          [] n = "ids" -> Bound("ids", IntV(hint.compiled))
          [] n \in {"vm_load_program", "vm_enter_scope", "vm_exit_scope"} ->
                Bound("vm_method", NoneV)
          [] OTHER -> Unbound]

\* exec_locals as exec_hint receives it.
HintLocals(scope, hint, statics, r_pc, r_ap, r_fp, step_no) ==
    Update(Update(scope, VmBindings(hint, NoneV, r_pc, r_ap, r_fp, step_no)),
           statics)

\* The two names deleted from whatever scope is on top once the hint is done.
ClearTopScope(scopes, depth) ==
    IF scopes = << >> THEN scopes
    ELSE [scopes EXCEPT ![Len(scopes)] = Del(Del(@, "ids"), "memory")]

\* del exec_locals["ids"]; del exec_locals["memory"], on the dictionary that
\* was the top scope when the hint started (position depth), if it is still
\* on the stack.
ClearHintBindings(scopes, depth) ==
    IF depth <= Len(scopes)
    THEN [scopes EXCEPT ![depth] = Del(Del(@, "ids"), "memory")]
    ELSE scopes

\* The hint loop going through the list from its end.
CurrentHintReversed(hint_list, index) == hint_list[Len(hint_list) - index]

\* The hint that iteration number index (from 0) of the hint loop executes.
CurrentHint(hint_list, index) == hint_list[index + 1]

\* step() going on after a hint has asked for the skip.
SkipReturnsNever(skip) == FALSE

\* if self.skip_instruction_execution: return
SkipReturns(skip) == skip

\* exec(code, globals_): the error raised, and the scope stack, the memory
\* and the skip flag the hint leaves; wrote is the cell it has set.
ExecHint(eff, scopes, depth, mem, skip) ==
    LET same == [err |-> "none", scopes |-> scopes, mem |-> mem, skip |-> skip,
                 wrote |-> NoneV]
    IN  CASE eff.kind = "nop" -> same
          [] eff.kind = "raise" -> [same EXCEPT !.err = "HintRaised"]
          [] eff.kind = "skip" -> [same EXCEPT !.skip = TRUE]
          [] eff.kind = "bind" ->
                [same EXCEPT !.scopes[depth]["x"] = Bound("value", IntV(1))]
          [] eff.kind = "enter" ->
                [same EXCEPT !.scopes = PushScope(scopes, eff.locals)]
          [] eff.kind = "exit" ->
                IF CanExitScope(scopes)
                THEN [same EXCEPT !.scopes = PopScope(scopes)]
                ELSE [same EXCEPT !.err = "AssertionError"]
          [] eff.kind = "write" ->
                IF MemSetOk(mem, eff.addr, eff.value)
                THEN [same EXCEPT !.mem = MemSet(mem, eff.addr, eff.value),
                                  !.wrote = eff.addr]
                ELSE [same EXCEPT !.err = "InconsistentMemory"]

\* step() leaving the flag as the last step left it.
SkipKept(skip) == skip

\* self.skip_instruction_execution = False
SkipAtStepStart(skip) == FALSE

\* pre.skip is the flag as step() found it; it is on record until the
\* hint loop starts.
HintLoopStarted(before) == [before EXCEPT !.skip = FALSE]

\* step(), up to the start of the hint loop.
StepBegin ==
    /\ ~in_step
    /\ Len(trace) < MaxSteps
    /\ skip_instruction_execution' = SkipAtStepStart(skip_instruction_execution)
    /\ in_step' = TRUE
    /\ hint_index' = 0
    /\ step_hints' = HintsAt(hints, pc)
    /\ hint_log' = << >>
    /\ hint_bindings' = EmptyDict
    /\ pre' = [pc |-> pc, ap |-> ap, fp |-> fp, trace |-> trace, memory |-> memory,
               skip |-> skip_instruction_execution]
    /\ result' = Running
    /\ invoked' = << >>
    /\ UNCHANGED << memory, pc, ap, fp, trace, current_step, exec_scopes,
                    static_locals, hints, auto_deduction, rule_env >>
    /\ UNCHANGED << loader_vars, validation_vars, tb, storage_vars >>

\* One iteration of the hint loop of step().
StepHint ==
    /\ in_step
    /\ hint_index < Len(step_hints)
    /\ \E eff \in HintEffects :
        LET hint == CurrentHint(step_hints, hint_index)
            depth == Len(exec_scopes)
            exec_locals == HintLocals(exec_scopes[depth], hint, static_locals,
                                      pc, ap, fp, current_step)
            bound == [exec_scopes EXCEPT ![depth] = exec_locals]
            out == ExecHint(eff, bound, depth, memory, skip_instruction_execution)
        IN  /\ eff.kind = "enter" => Len(exec_scopes) < MaxScopes
            /\ hint_bindings' = exec_locals
            /\ memory' = out.mem
            /\ skip_instruction_execution' = out.skip
            /\ hint_log' = Append(hint_log,
                    [what |-> "hint", index |-> hint_index,
                     hint |-> hint.compiled, wrote |-> out.wrote,
                     skip |-> out.skip, depth |-> depth])
            /\ IF out.err # "none"
               THEN /\ exec_scopes' = out.scopes
                    /\ in_step' = FALSE
                    /\ hint_index' = hint_index
                    /\ result' = VmException("step", out.err, pc, IntV(hint_index))
               ELSE /\ exec_scopes' = ClearHintBindings(out.scopes, depth)
                    /\ IF SkipReturns(out.skip)
                       THEN /\ in_step' = FALSE
                            /\ hint_index' = hint_index
                            /\ result' = Ok("step")
                       ELSE /\ in_step' = TRUE
                            /\ hint_index' = hint_index + 1
                            /\ result' = Running
    /\ pre' = HintLoopStarted(pre)
    /\ UNCHANGED << pc, ap, fp, trace, current_step, static_locals, hints,
                    auto_deduction, rule_env, step_hints, invoked >>
    /\ UNCHANGED << loader_vars, validation_vars, tb, storage_vars >>

\* decode_current_instruction()
DecodeCurrentInstruction(mem, r_pc) == Opcodes[mem[r_pc].off]

\* Reading an operand: the stored value, or what deduce_memory_cell gives
\* for an absent cell.
ReadOperand(deduction, env, mem, addr) ==
    IF MemGet(mem, addr) # NoneV
    THEN [ret |-> mem[addr], err |-> "none", mem |-> mem, called |-> << >>,
          deduced |-> FALSE]
    ELSE LET d == DeduceMemoryCell(deduction, env, mem, addr)
         IN  [ret |-> d.ret,
              err |-> IF d.err = "none" /\ d.ret = NoneV
                      THEN "UnknownMemoryCell" ELSE d.err,
              mem |-> d.mem, called |-> d.called, deduced |-> TRUE]

\* run_instruction(instruction): the operands are computed and written
\* first; then the trace entry is appended and the registers are updated.
RunInstruction(instruction, deduction, env, mem, r_pc, r_ap, r_fp) ==
    LET src == ReadOperand(deduction, env, mem, RelV(BuiltinSegment, 0))
        op == IF instruction = "assert_imm"
              THEN [ret |-> IntV(1), err |-> "none", mem |-> mem,
                    called |-> << >>, deduced |-> FALSE]
              ELSE src
        ok == op.err = "none" /\ MemSetOk(op.mem, r_ap, op.ret)
    IN  [err |-> IF op.err # "none" THEN op.err
                 ELSE IF ok THEN "none" ELSE "InconsistentMemory",
         mem |-> IF ok THEN MemSet(op.mem, r_ap, op.ret) ELSE op.mem,
         entries |-> IF ok THEN << [pc |-> r_pc, ap |-> r_ap, fp |-> r_fp] >>
                     ELSE << >>,
         pc |-> IF ~ok THEN r_pc
                ELSE IF instruction = "copy_jmp" THEN program_base
                ELSE AddOff(r_pc, 1),
         ap |-> IF ok THEN AddOff(r_ap, 1) ELSE r_ap,
         fp |-> r_fp,
         steps |-> IF ok THEN 1 ELSE 0,
         called |-> op.called,
         deduced |-> op.deduced]

\* step(), after the hint loop: decode and run
StepRun ==
    /\ in_step
    /\ hint_index = Len(step_hints)
    /\ LET instruction == DecodeCurrentInstruction(memory, pc)
           run == RunInstruction(instruction, auto_deduction, rule_env, memory,
                                 pc, ap, fp)
       IN  /\ memory' = run.mem
           /\ trace' = trace \o run.entries
           /\ pc' = run.pc
           /\ ap' = run.ap
           /\ fp' = run.fp
           /\ current_step' = current_step + run.steps
           /\ invoked' = IF run.deduced THEN run.called ELSE invoked
           /\ result' = IF run.err = "none" THEN Ok("step")
                        ELSE VmException("step", run.err, pc, NoneV)
           /\ hint_log' = Append(hint_log,
                   [what |-> "instruction", index |-> hint_index, hint |-> -1,
                    wrote |-> NoneV, skip |-> skip_instruction_execution,
                    depth |-> Len(exec_scopes)])
    /\ in_step' = FALSE
    /\ UNCHANGED << exec_scopes, static_locals, hints, auto_deduction,
                    skip_instruction_execution, rule_env, hint_index, step_hints,
                    hint_bindings >>
    /\ pre' = HintLoopStarted(pre)
    /\ UNCHANGED << loader_vars, validation_vars, tb, storage_vars >>

----------------------------------------------------------------------------
(* load_program on a running VM: called by the host between steps, or by a  *)
(* hint through vm_load_program.                                            *)

\* The registries of the VM as load_program finds them.
CurrentLoader ==
    Loader(hints, hint_pc_and_index, instruction_debug_info, debug_file_contents)

\* What the caller of load_program(program, at) sees: the assertion error,
\* the VmException of compile_hint, or the return.
LoadOutcome(l, program, at, cur_pc) ==
    IF l.err \in {"none", "AssertionError"}
    THEN Res("load_program", l.err, NoneV, at, IntV(program.prime))
    ELSE [VmException("load_program", l.err, cur_pc, l.hint_index)
            EXCEPT !.cur = IntV(program.prime)]

\* vm.load_program(program, at), called between two steps
LoadProgramCall ==
    /\ ~in_step
    /\ Cardinality(DOMAIN hint_pc_and_index) < MaxHintIds
    /\ \E program \in LoadablePrograms, at \in ProgramBases :
        LET l == LoadProgram(CurrentLoader, Prime, program, at)
        IN  /\ hints' = l.hints
            /\ hint_pc_and_index' = l.hint_pc_and_index
            /\ instruction_debug_info' = l.instruction_debug_info
            /\ debug_file_contents' = l.debug_file_contents
            /\ result' = LoadOutcome(l, program, at, pc)
    /\ ForgetStep
    /\ invoked' = << >>
    /\ UNCHANGED << memory, pc, ap, fp, trace, current_step, exec_scopes,
                    static_locals, auto_deduction, skip_instruction_execution,
                    rule_env, in_step, hint_index, step_hints >>
    /\ UNCHANGED << validation_vars, tb, storage_vars >>

\* One iteration of the hint loop of step() in which the hint calls
\* vm_load_program(program, at).  The loop goes on over the list it
\* fetched when the step began, whatever the load stores at the pc.
StepHintLoad ==
    /\ in_step
    /\ hint_index < Len(step_hints)
    /\ Cardinality(DOMAIN hint_pc_and_index) < MaxHintIds
    /\ \E program \in LoadablePrograms, at \in ProgramBases :
        LET hint == CurrentHint(step_hints, hint_index)
            depth == Len(exec_scopes)
            exec_locals == HintLocals(exec_scopes[depth], hint, static_locals,
                                      pc, ap, fp, current_step)
            bound == [exec_scopes EXCEPT ![depth] = exec_locals]
            l == LoadProgram(CurrentLoader, Prime, program, at)
            raised == IF l.err = "SyntaxError" THEN "VmException" ELSE l.err
        IN  /\ hint_bindings' = exec_locals
            /\ hints' = l.hints
            /\ hint_pc_and_index' = l.hint_pc_and_index
            /\ instruction_debug_info' = l.instruction_debug_info
            /\ debug_file_contents' = l.debug_file_contents
            /\ hint_log' = Append(hint_log,
                    [what |-> "vm_load_program", index |-> hint_index,
                     hint |-> hint.compiled, wrote |-> NoneV,
                     skip |-> skip_instruction_execution, depth |-> depth,
                     prime |-> program.prime, at |-> at])
            /\ IF l.err # "none"
               THEN /\ exec_scopes' = bound
                    /\ in_step' = FALSE
                    /\ hint_index' = hint_index
                    /\ result' = VmException("step", raised, pc, IntV(hint_index))
               ELSE /\ exec_scopes' = ClearHintBindings(bound, depth)
                    /\ IF SkipReturns(skip_instruction_execution)
                       THEN /\ in_step' = FALSE
                            /\ hint_index' = hint_index
                            /\ result' = Ok("step")
                       ELSE /\ in_step' = TRUE
                            /\ hint_index' = hint_index + 1
                            /\ result' = Running
    /\ UNCHANGED << memory, pc, ap, fp, trace, current_step, static_locals,
                    auto_deduction, skip_instruction_execution, rule_env,
                    step_hints, invoked >>
    /\ pre' = HintLoopStarted(pre)
    /\ UNCHANGED << validation_vars, tb, storage_vars >>

----------------------------------------------------------------------------
(* RunContextBase.get_traceback_entries: the walk through the frames.       *)

MAX_TRACEBACK_ENTRIES == 20

\* Encoded instructions: a call that takes no immediate (call abs [fp + x]),
\* a call that takes one (call rel imm) and an instruction that is no call.
CallAbsWord == IntV(3)
CallRelWord == IntV(4)
OtherWord == IntV(1)

\* is_call_instruction(encoded_instruction, imm): the word decodes, with the
\* immediate it is given, to a call.
is_call_instruction(encoded_instruction, imm) ==
    IF imm = NoneV
    THEN encoded_instruction = CallAbsWord
    ELSE encoded_instruction = CallRelWord /\ imm.kind = "int"

\* The walk preferring the two-word reading of the call.
CallPcTwoWordsFirst(mem, ret_pc) ==
    LET instruction0 == MemGet(mem, AddOff(ret_pc, -2))
        instruction1 == MemGet(mem, AddOff(ret_pc, -1))
    IN  IF /\ instruction0 # NoneV
           /\ instruction1 # NoneV
           /\ is_call_instruction(instruction0, instruction1)
        THEN AddOff(ret_pc, -2)
        ELSE IF instruction1 # NoneV /\ is_call_instruction(instruction1, NoneV)
        THEN AddOff(ret_pc, -1)
        ELSE NoneV

\* The walk recording ret_pc - 1 for a frame in which it finds no call.
CallPcGuessed(mem, ret_pc) ==
    LET instruction0 == MemGet(mem, AddOff(ret_pc, -2))
        instruction1 == MemGet(mem, AddOff(ret_pc, -1))
    IN  IF /\ instruction0 # NoneV
           /\ instruction1 # NoneV
           /\ ~is_call_instruction(instruction1, NoneV)
           /\ is_call_instruction(instruction0, instruction1)
        THEN AddOff(ret_pc, -2)
        ELSE AddOff(ret_pc, -1)

\* call_pc of the frame that returns to ret_pc; None when neither reading of
\* the cells before ret_pc is a call.
CallPc(mem, ret_pc) ==
    LET instruction0 == MemGet(mem, AddOff(ret_pc, -2))
        instruction1 == MemGet(mem, AddOff(ret_pc, -1))
    IN  IF instruction1 # NoneV /\ is_call_instruction(instruction1, NoneV)
        THEN AddOff(ret_pc, -1)
        ELSE IF /\ instruction0 # NoneV
                /\ instruction1 # NoneV
                /\ is_call_instruction(instruction0, instruction1)
        THEN AddOff(ret_pc, -2)
        ELSE NoneV

\* One iteration of the loop of get_traceback_entries at frame pointer
\* r_fp: why it breaks ("go" when it does not), the frame pointer and the
\* entries it leaves, and what it read.
WalkFrame(mem, r_fp, entries) ==
    LET prev_fp == MemGet(mem, AddOff(r_fp, -2))
        ret_pc == MemGet(mem, AddOff(r_fp, -1))
        call_pc == CallPc(mem, ret_pc)
        read == [fp |-> r_fp, prev_fp |-> prev_fp, ret_pc |-> ret_pc,
                 instruction0 |-> NoneV, instruction1 |-> NoneV,
                 call_pc |-> NoneV]
    IN  IF prev_fp = r_fp
        THEN [why |-> "outermost", fp |-> r_fp, entries |-> entries,
              last |-> [read EXCEPT !.ret_pc = NoneV]]
        ELSE IF prev_fp = NoneV \/ ret_pc = NoneV
        THEN [why |-> "absent", fp |-> prev_fp, entries |-> entries, last |-> read]
        ELSE LET seen == [read EXCEPT
                            !.instruction0 = MemGet(mem, AddOff(ret_pc, -2)),
                            !.instruction1 = MemGet(mem, AddOff(ret_pc, -1))]
             IN  IF call_pc = NoneV
                 THEN [why |-> "no_call", fp |-> prev_fp, entries |-> entries,
                       last |-> seen]
                 ELSE [why |-> "go", fp |-> prev_fp,
                       entries |-> Append(entries, call_pc),
                       last |-> [seen EXCEPT !.call_pc = call_pc]]

\* A loop that goes on until a frame breaks it.
WalkContinuesUnbounded(iterations) == TRUE

\* for _ in range(MAX_TRACEBACK_ENTRIES)
WalkContinues(iterations) == iterations < MAX_TRACEBACK_ENTRIES

\* entries as they were recorded.
Unreversed(entries) == entries

\* entries[::-1]
Reversed(entries) == [i \in 1..Len(entries) |-> entries[Len(entries) + 1 - i]]

\* get_traceback_entries() is called.
GetTracebackEntries ==
    /\ tb.caller = "none"
    /\ tb' = [NoWalk EXCEPT !.caller = "get_traceback_entries", !.fp = fp,
                            !.why = "go"]
    /\ result' = Res("get_traceback_entries", "running", NoneV, NoneV, NoneV)
    /\ UNCHANGED << memory, pc, ap, fp, trace, current_step, exec_scopes,
                    static_locals, hints, auto_deduction,
                    skip_instruction_execution, rule_env, in_step, hint_index,
                    step_hints, invoked, hint_log, hint_bindings, pre,
                    loader_vars, validation_vars, storage_vars >>

\* One iteration of the loop of get_traceback_entries.
WalkIteration ==
    /\ tb.caller # "none"
    /\ tb.why = "go"
    /\ WalkContinues(tb.iterations)
    /\ LET w == WalkFrame(memory, tb.fp, tb.entries)
       IN  tb' = [tb EXCEPT !.fp = w.fp, !.entries = w.entries, !.why = w.why,
                           !.last = w.last, !.iterations = @ + 1]
    /\ UNCHANGED << memory, pc, ap, fp, trace, current_step, exec_scopes,
                    static_locals, hints, auto_deduction,
                    skip_instruction_execution, rule_env, in_step, hint_index,
                    step_hints, result, invoked, hint_log, hint_bindings, pre,
                    loader_vars, validation_vars, storage_vars >>

\* The loop of get_traceback_entries is over.
WalkOver == tb.why \in {"outermost", "absent", "no_call"}
               \/ (tb.why = "go" /\ ~WalkContinues(tb.iterations))

\* get_traceback_entries() returns to a caller that asked for the entries.
WalkReturn ==
    /\ tb.caller = "get_traceback_entries"
    /\ WalkOver
    /\ result' = Res("get_traceback_entries", "none", Reversed(tb.entries),
                     NoneV, NoneV)
    /\ tb' = [tb EXCEPT !.caller = "none",
                        !.why = IF @ = "go" THEN "limit" ELSE @]
    /\ UNCHANGED << memory, pc, ap, fp, trace, current_step, exec_scopes,
                    static_locals, hints, auto_deduction,
                    skip_instruction_execution, rule_env, in_step, hint_index,
                    step_hints, invoked, hint_log, hint_bindings, pre,
                    loader_vars, validation_vars, storage_vars >>

----------------------------------------------------------------------------
(* as_vm_exception, get_location and get_traceback.                         *)

\* Optional values that are not MaybeRelocatable: None is the record that is
\* not present.
NoTraceback == [present |-> FALSE, lines |-> << >>]
NoNotes == [present |-> FALSE, items |-> << >>]
Notes(items) == [present |-> TRUE, items |-> items]

\* get_location(pc)
GetLocation(locations, at) ==
    IF at \in DOMAIN locations THEN locations[at] ELSE NoneV

\* get_traceback(): one line per entry, under the header; None when there
\* is no entry.
GetTraceback(entries, locations) ==
    IF Len(entries) = 0 THEN NoTraceback
    ELSE [present |-> TRUE,
          lines |-> [i \in 1..Len(entries) |->
                        [pc |-> entries[i],
                         location |-> GetLocation(locations, entries[i])]]]

\* as_vm_exception reconstructing the traceback for every pc.
NeedsTracebackAlways(pc_arg) == TRUE

\* if pc is None: ... traceback = self.get_traceback()
NeedsTraceback(pc_arg) == pc_arg = NoneV

\* if pc is None: pc = self.run_context.pc
ExceptionPc(pc_arg, cur_pc) == IF pc_arg = NoneV THEN cur_pc ELSE pc_arg

\* The VmException that as_vm_exception returns.
AsVmException(exc, pc_arg, notes, h_index, cur_pc, locations, traceback) ==
    [pc |-> ExceptionPc(pc_arg, cur_pc),
     inst_location |-> GetLocation(locations, ExceptionPc(pc_arg, cur_pc)),
     inner_exc |-> exc,
     traceback |-> traceback,
     notes |-> notes,
     hint_index |-> h_index]

\* The arguments as_vm_exception is called with: by exec_hint, by step() for
\* an error of the instruction, and by a runner that names the pc.
AsVmExceptionArgs ==
    {[exc |-> "HintException", pc |-> NoneV, notes |-> Notes(<< "HintException" >>),
      hint_index |-> IntV(0)],
     [exc |-> "InconsistentMemory", pc |-> NoneV, notes |-> NoNotes,
      hint_index |-> NoneV],
     [exc |-> "BuiltinError", pc |-> RelV(ProgramSegment, 18), notes |-> NoNotes,
      hint_index |-> NoneV],
     [exc |-> "BuiltinError", pc |-> RelV(ProgramSegment, 19),
      notes |-> Notes(<< "note" >>), hint_index |-> NoneV]}

\* as_vm_exception(exc, pc, notes, hint_index) is called; with a pc it
\* returns at once.
AsVmExceptionCall ==
    /\ tb.caller = "none"
    /\ \E args \in AsVmExceptionArgs :
        LET call == [NoWalk EXCEPT !.exc = args.exc, !.pc = args.pc,
                                   !.notes = args.notes,
                                   !.hint_index = args.hint_index]
        IN  IF NeedsTraceback(args.pc)
            THEN /\ tb' = [call EXCEPT !.caller = "as_vm_exception", !.fp = fp,
                                       !.why = "go"]
                 /\ result' = Res("as_vm_exception", "running", NoneV, NoneV, NoneV)
            ELSE /\ tb' = call
                 /\ result' = Res("as_vm_exception", "none",
                                  AsVmException(args.exc, args.pc, args.notes,
                                                args.hint_index, pc,
                                                instruction_debug_info,
                                                NoTraceback),
                                  NoneV, NoneV)
    /\ UNCHANGED << memory, pc, ap, fp, trace, current_step, exec_scopes,
                    static_locals, hints, auto_deduction,
                    skip_instruction_execution, rule_env, in_step, hint_index,
                    step_hints, invoked, hint_log, hint_bindings, pre,
                    loader_vars, validation_vars, storage_vars >>

\* get_traceback() has its entries and as_vm_exception returns.
AsVmExceptionReturn ==
    /\ tb.caller = "as_vm_exception"
    /\ WalkOver
    /\ result' = Res("as_vm_exception", "none",
                     AsVmException(tb.exc, tb.pc, tb.notes, tb.hint_index, pc,
                                   instruction_debug_info,
                                   GetTraceback(Reversed(tb.entries),
                                                instruction_debug_info)),
                     NoneV, NoneV)
    /\ tb' = [tb EXCEPT !.caller = "none",
                        !.why = IF @ = "go" THEN "limit" ELSE @]
    /\ UNCHANGED << memory, pc, ap, fp, trace, current_step, exec_scopes,
                    static_locals, hints, auto_deduction,
                    skip_instruction_execution, rule_env, in_step, hint_index,
                    step_hints, invoked, hint_log, hint_bindings, pre,
                    loader_vars, validation_vars, storage_vars >>

----------------------------------------------------------------------------
(* The memories that tracebacks are reconstructed from: two frames, at       *)
(* (1,4) and (1,10), and the cells before their return addresses.           *)

OuterFp == RelV(ExecutionSegment, 4)
InnerFp == RelV(ExecutionSegment, 10)
TracebackFps == {OuterFp, InnerFp}

TracebackMemory(fp4, ret4, fp10, ret10, word18, word19) ==
    (RelV(ExecutionSegment, 2) :> fp4) @@ (RelV(ExecutionSegment, 3) :> ret4)
    @@ (RelV(ExecutionSegment, 8) :> fp10) @@ (RelV(ExecutionSegment, 9) :> ret10)
    @@ (RelV(ProgramSegment, 18) :> word18) @@ (RelV(ProgramSegment, 19) :> word19)

TracebackMemories ==
    {TracebackMemory(fp4, ret4, fp10, ret10, word18, word19) :
        fp4 \in {NoneV, OuterFp, InnerFp},
        ret4 \in {NoneV, RelV(ProgramSegment, 19), RelV(ProgramSegment, 20)},
        fp10 \in {NoneV, OuterFp, InnerFp},
        ret10 \in {NoneV, RelV(ProgramSegment, 20)},
        word18 \in {NoneV, CallRelWord, CallAbsWord, OtherWord},
        word19 \in {NoneV, CallAbsWord, OtherWord}}

\* The program of these runs, with debug information for its first
\* instruction and for the instruction at offset 18.
TracebackProgram ==
    [name |-> "main", prime |-> Prime, hints |-> << >>,
     debug_info |-> DebugInfo("main", {0, 18})]

InitTraceback ==
    /\ memory \in TracebackMemories
    /\ fp \in TracebackFps
    /\ ap = fp
    /\ pc = program_base
    /\ InitTrace
    /\ hints = ConstructedWith(TracebackProgram).hints
    /\ hint_pc_and_index = ConstructedWith(TracebackProgram).hint_pc_and_index
    /\ instruction_debug_info =
            ConstructedWith(TracebackProgram).instruction_debug_info
    /\ debug_file_contents = ConstructedWith(TracebackProgram).debug_file_contents
    /\ InitMachine
    /\ InitValidation
    /\ tb = NoWalk
    /\ InitStorage

----------------------------------------------------------------------------
(* get_perm_range_check_limits(trace, memory).                              *)

\* An encoded instruction: the flags above three offset fields.
Encode(flags, off0, off1, off2) ==
    IntV(off0 + (2 ^ OffsetBits) * off1 + (2 ^ (2 * OffsetBits)) * off2
         + (2 ^ (3 * OffsetBits)) * flags)

\* decode_instruction_values(encoded_instruction): flags, off0, off1, off2
decode_instruction_values(encoded_instruction) ==
    LET w == 2 ^ OffsetBits
        n == encoded_instruction.off
    IN  << n \div (w * w * w), n % w, (n \div w) % w, (n \div (w * w)) % w >>

\* The offsets collected for one entry, without off2.
EntryOffsetsNoOff2(values) == << values[2], values[3] >>

\* [off0, off1, off2]
EntryOffsets(values) == << values[2], values[3], values[4] >>

\* The loop of get_perm_range_check_limits from entry number i on: the
\* offsets collected, or the error of reading a pc that holds no value.
RECURSIVE CollectOffsets(_, _, _, _)
CollectOffsets(entries, i, mem, offsets) ==
    IF i > Len(entries) THEN [err |-> "none", offsets |-> offsets]
    ELSE IF MemGet(mem, entries[i].pc) = NoneV
    THEN [err |-> "UnknownMemory", offsets |-> offsets]
    ELSE CollectOffsets(entries, i + 1, mem,
            offsets \o EntryOffsets(decode_instruction_values(mem[entries[i].pc])))

\* min(offsets) and max(offsets) of a list that is not empty
RECURSIVE ListMin(_, _)
ListMin(offsets, i) ==
    IF i = Len(offsets) THEN offsets[i]
    ELSE LET rest == ListMin(offsets, i + 1)
         IN  IF offsets[i] <= rest THEN offsets[i] ELSE rest
RECURSIVE ListMax(_, _)
ListMax(offsets, i) ==
    IF i = Len(offsets) THEN offsets[i]
    ELSE LET rest == ListMax(offsets, i + 1)
         IN  IF offsets[i] >= rest THEN offsets[i] ELSE rest

NoLimits == [min |-> 0, max |-> 0]

\* get_perm_range_check_limits(trace, memory): min and max of an empty list
\* raise ValueError.
get_perm_range_check_limits(entries, mem) ==
    LET c == CollectOffsets(entries, 1, mem, << >>)
    IN  IF c.err # "none" THEN [err |-> c.err, limits |-> NoLimits]
        ELSE IF c.offsets = << >> THEN [err |-> "ValueError", limits |-> NoLimits]
        ELSE [err |-> "none",
              limits |-> [min |-> ListMin(c.offsets, 1), max |-> ListMax(c.offsets, 1)]]

\* The caller asks for the limits of the trace and the memory.
GetPermRangeCheckLimits ==
    /\ LET r == get_perm_range_check_limits(trace, memory)
       IN  result' = Res("get_perm_range_check_limits", r.err, r.limits,
                         NoneV, NoneV)
    /\ UNCHANGED << memory, pc, ap, fp, trace, current_step, exec_scopes,
                    static_locals, hints, auto_deduction,
                    skip_instruction_execution, rule_env, in_step, hint_index,
                    step_hints, invoked, hint_log, hint_bindings, pre,
                    loader_vars, validation_vars, tb, storage_vars >>

\* The instructions of the programs whose traces are measured.
RangeCheckWords == {Encode(1, 1, 2, 3), Encode(2, 0, 5, 2), Encode(0, 4, 4, 4)}
RangeCheckPcs == {RelV(ProgramSegment, o) : o \in 0..2}

\* TraceEntry(pc, ap, fp)
TraceEntry(r_pc, r_ap, r_fp) == [pc |-> r_pc, ap |-> r_ap, fp |-> r_fp]

\* The traces of at most MaxTrace entries over these pcs.
RangeCheckTraces ==
    UNION {[1..n -> {TraceEntry(a, RelV(ExecutionSegment, 0),
                                RelV(ExecutionSegment, 0)) : a \in RangeCheckPcs}] :
             n \in 0..MaxTrace}

InitRangeCheck ==
    /\ memory \in [RangeCheckPcs -> RangeCheckWords \cup {NoneV}]
    /\ pc = program_base
    /\ ap = RelV(ExecutionSegment, 0)
    /\ fp = RelV(ExecutionSegment, 0)
    /\ trace \in RangeCheckTraces
    /\ current_step = Len(trace)
    /\ InitLoader
    /\ InitMachine
    /\ InitValidation
    /\ tb = NoWalk
    /\ InitStorage

----------------------------------------------------------------------------
(* Storage, DictStorage and CachedStorage over a DictStorage.               *)

\* bytes; True and False
BytesV(n) == [kind |-> "bytes", seg |-> 0, off |-> n]
TrueV == [kind |-> "bool", seg |-> 0, off |-> 1]
FalseV == [kind |-> "bool", seg |-> 0, off |-> 0]

StorageKeys == {BytesV(1), BytesV(2)}
StorageValues == {BytesV(3), BytesV(4)}
StorageClasses == {"DictStorage", "CachedStorage"}

\* self.db.get(key, None)
DbGet(d, key) == IF key \in DOMAIN d THEN d[key] ELSE NoneV

\* del self.db[key], ignoring KeyError
DbDel(d, key) == [x \in DOMAIN d \ {key} |-> d[x]]

\* The LRUCache: its items from the least to the most recently used.
CacheKeys(c) == {c[i].key : i \in 1..Len(c)}
CacheGet(c, key) == (CHOOSE i \in 1..Len(c) : c[i].key = key)
CacheWithout(c, key) == SelectSeq(c, LAMBDA item : item.key # key)
\* cache[key]: the value, and the cache with key as its most recent item
CacheTouch(c, key) == Append(CacheWithout(c, key), c[CacheGet(c, key)])
\* cache[key] = value: the least recently used items leave a full cache
CachePut(c, key, value) ==
    LET put == Append(CacheWithout(c, key), [key |-> key, value |-> value])
    IN  IF Len(put) > MaxCacheSize
        THEN SubSeq(put, Len(put) - MaxCacheSize + 1, Len(put))
        ELSE put

\* An outcome of a storage call: the error raised, the value returned and
\* the dictionary and the cache it leaves.
StorageOutcome(err, ret, d, c) == [err |-> err, ret |-> ret, db |-> d, cache |-> c]

\* setnx_value as a storage over a dictionary would implement it.
setnx_value_inserting(class, d, c, key, value) ==
    IF key \in DOMAIN d
    THEN StorageOutcome("none", FalseV, d, c)
    ELSE StorageOutcome("none", TrueV, DictSet(d, key, value), c)

\* Storage.setnx_value, which neither DictStorage nor CachedStorage
\* overrides.
setnx_value(class, d, c, key, value) ==
    StorageOutcome("NotImplementedError", NoneV, d, c)

\* set_value(key, value)
set_value(class, d, c, key, value) ==
    IF class = "DictStorage"
    THEN StorageOutcome("none", NoneV, DictSet(d, key, value), c)
    ELSE StorageOutcome("none", NoneV, DictSet(d, key, value),
                        CachePut(c, key, value))

\* get_value(key)
get_value(class, d, c, key) ==
    IF class = "DictStorage"
    THEN StorageOutcome("none", DbGet(d, key), d, c)
    ELSE IF key \in CacheKeys(c)
    THEN StorageOutcome("none", c[CacheGet(c, key)].value, d, CacheTouch(c, key))
    ELSE IF DbGet(d, key) = NoneV
    THEN StorageOutcome("none", NoneV, d, c)
    ELSE StorageOutcome("none", DbGet(d, key), d, CachePut(c, key, DbGet(d, key)))

\* del_value(key)
del_value(class, d, c, key) ==
    IF class = "DictStorage"
    THEN StorageOutcome("none", NoneV, DbDel(d, key), c)
    ELSE StorageOutcome("NotImplementedError", NoneV, d, c)

\* A call has returned or raised: the storages and the caller's view.
StorageCall(op, class, key, value, out) ==
    /\ db' = out.db
    /\ cache' = out.cache
    /\ tasks' = tasks
    /\ result' = [Res(op, out.err, out.ret, key, value) EXCEPT !.cause = class]
    /\ UNCHANGED << memory, pc, ap, fp, trace, current_step, exec_scopes,
                    static_locals, hints, auto_deduction,
                    skip_instruction_execution, rule_env, in_step, hint_index,
                    step_hints, invoked, hint_log, hint_bindings, pre,
                    loader_vars, validation_vars, tb >>

SetValue ==
    \E class \in StorageClasses, key \in StorageKeys, value \in StorageValues :
        StorageCall("set_value", class, key, value,
                    set_value(class, db, cache, key, value))

GetValue ==
    \E class \in StorageClasses, key \in StorageKeys :
        StorageCall("get_value", class, key, NoneV,
                    get_value(class, db, cache, key))

DelValue ==
    \E class \in StorageClasses, key \in StorageKeys :
        StorageCall("del_value", class, key, NoneV,
                    del_value(class, db, cache, key))

SetnxValue ==
    \E class \in StorageClasses, key \in StorageKeys, value \in StorageValues :
        StorageCall("setnx_value", class, key, value,
                    setnx_value(class, db, cache, key, value))

----------------------------------------------------------------------------
(* Concurrent calls on a CachedStorage, as mset and mget gather them: each  *)
(* call runs until its await on the underlying storage, where another call  *)
(* may run, and goes on when the underlying storage has answered.           *)

Tasks == 1..MaxTasks

\* The calls that are suspended at their await.
Suspended(ts) == {t \in Tasks : ts[t].at \in {"await", "fetched"}}

\* The calls are numbered in the order they start.
NextToStart(t) ==
    /\ tasks[t].at = "idle"
    /\ \A u \in Tasks : u < t => tasks[u].at # "idle"

\* What the storage calls leave alone.
StorageOnly ==
    UNCHANGED << memory, pc, ap, fp, trace, current_step, exec_scopes,
                 static_locals, hints, auto_deduction,
                 skip_instruction_execution, rule_env, in_step, hint_index,
                 step_hints, result, invoked, hint_log, hint_bindings, pre,
                 loader_vars, validation_vars, tb >>

\* An underlying storage that drops what it is given.
UnderlyingSetValueLost(d, key, value) == d

\* DictStorage.set_value: self.db[key] = value
UnderlyingSetValue(d, key, value) == DictSet(d, key, value)

\* get_value after its await: None is returned as it is, any other value
\* is put into the cache first.
CacheAfterGet(c, key, value) ==
    IF value = NoneV THEN c ELSE CachePut(c, key, value)

\* CachedStorage.set_value up to its await: self.cache[key] = value
CachedSetValueCalled ==
    /\ \E t \in Tasks, key \in StorageKeys, value \in StorageValues :
        /\ NextToStart(t)
        /\ cache' = CachePut(cache, key, value)
        /\ tasks' = [tasks EXCEPT ![t] =
                        [op |-> "set_value", at |-> "await", key |-> key,
                         value |-> value, ret |-> NoneV,
                         overlapped |-> Suspended(tasks) # {}]]
    /\ db' = db
    /\ StorageOnly

\* await self.storage.set_value(key, value): the underlying storage stores
\* the value and set_value returns.
CachedSetValueResumed ==
    /\ \E t \in Tasks :
        /\ tasks[t].op = "set_value" /\ tasks[t].at = "await"
        /\ db' = UnderlyingSetValue(db, tasks[t].key, tasks[t].value)
        /\ tasks' = [tasks EXCEPT ![t].at = "done"]
    /\ cache' = cache
    /\ StorageOnly

\* CachedStorage.get_value up to its await: a key that is in the cache is
\* answered from the cache.
CachedGetValueCalled ==
    /\ \E t \in Tasks, key \in StorageKeys :
        /\ NextToStart(t)
        /\ IF key \in CacheKeys(cache)
           THEN /\ cache' = CacheTouch(cache, key)
                /\ tasks' = [tasks EXCEPT ![t] =
                        [op |-> "get_value", at |-> "done", key |-> key,
                         value |-> NoneV, ret |-> cache[CacheGet(cache, key)].value,
                         overlapped |-> Suspended(tasks) # {}]]
           ELSE /\ cache' = cache
                /\ tasks' = [tasks EXCEPT ![t] =
                        [op |-> "get_value", at |-> "await", key |-> key,
                         value |-> NoneV, ret |-> NoneV,
                         overlapped |-> Suspended(tasks) # {}]]
    /\ db' = db
    /\ StorageOnly

\* self.storage.get_value(key): the underlying storage answers the call
\* that waits for it.
UnderlyingGetValue ==
    /\ \E t \in Tasks :
        /\ tasks[t].op = "get_value" /\ tasks[t].at = "await"
        /\ tasks' = [tasks EXCEPT ![t].at = "fetched",
                                  ![t].value = DbGet(db, tasks[t].key)]
    /\ UNCHANGED << db, cache >>
    /\ StorageOnly

\* CachedStorage.get_value after its await, with the answer of the
\* underlying storage.
CachedGetValueResumed ==
    /\ \E t \in Tasks :
        /\ tasks[t].op = "get_value" /\ tasks[t].at = "fetched"
        /\ cache' = CacheAfterGet(cache, tasks[t].key, tasks[t].value)
        /\ tasks' = [tasks EXCEPT ![t].at = "done", ![t].ret = tasks[t].value]
    /\ db' = db
    /\ StorageOnly

----------------------------------------------------------------------------
(* The validated memory: validation rules, what a set does with them and    *)
(* validate_existing_memory.                                                *)

\* The rules that are registered.  "range_check" vets one cell: its value
\* must be in range.  "pair" is a rule of a builtin whose cells come in
\* pairs: it waits until both cells of the pair are stored, checks them
\* against each other and vets both.  "vouch" is a rule of the host that
\* vets, from the first cell of a pair, whatever the pair holds.
ValidationRuleNames == {"range_check", "pair", "vouch"}

\* The other cell of the pair of addr.
Partner(addr) == [addr EXCEPT !.off = IF @ % 2 = 0 THEN @ + 1 ELSE @ - 1]

\* rule(memory, addr): the error it raises and the addresses it returns.
ValidationRule(rule, mem, addr) ==
    LET ok(addrs) == [err |-> "none", validated |-> addrs]
        raise == [err |-> "ValidationFailed", validated |-> {}]
        partner == Partner(addr)
    IN  CASE rule = "range_check" ->
                IF mem[addr] = IntV(1) THEN ok({addr}) ELSE raise
          [] rule = "pair" ->
                IF MemGet(mem, partner) = NoneV THEN ok({})
                ELSE IF mem[addr] = mem[partner] THEN ok({addr, partner})
                ELSE raise
          [] rule = "vouch" ->
                IF addr.off % 2 # 0 THEN ok({})
                ELSE IF MemGet(mem, partner) = NoneV THEN ok({addr})
                ELSE ok({addr, partner})

\* The rules registered for the segment of addr, in registration order.
ValidationRulesOf(registry, addr) ==
    IF addr.seg \in DOMAIN registry THEN registry[addr.seg] ELSE << >>

\* The rules of a cell, from rule number i on: each is called with the
\* memory and the address, and what it returns joins the validated set;
\* the first that raises ends the validation.  called lists the calls made
\* with the validated set each of them found.
RECURSIVE RunValidationRules(_, _, _, _, _, _)
RunValidationRules(rules, i, mem, addr, validated, called) ==
    IF i > Len(rules)
    THEN [err |-> "none", validated |-> validated, called |-> called]
    ELSE LET r == ValidationRule(rules[i], mem, addr)
             log == Append(called, [rule |-> rules[i], addr |-> addr,
                                    validated |-> validated])
         IN  IF r.err # "none"
             THEN [err |-> r.err, validated |-> validated, called |-> log]
             ELSE RunValidationRules(rules, i + 1, mem, addr,
                                     validated \cup r.validated, log)

\* A validated memory that runs the rules of every relocatable address.
NeedsValidationAlways(validated, addr) == IsRelocatable(addr)

\* The rules run for a relocatable address that is not yet validated.
NeedsValidation(validated, addr) == IsRelocatable(addr) /\ addr \notin validated

\* The validation of one stored cell.
ValidateMemoryCell(registry, mem, validated, addr, called) ==
    IF ~NeedsValidation(validated, addr)
    THEN [err |-> "none", validated |-> validated, called |-> called]
    ELSE RunValidationRules(ValidationRulesOf(registry, addr), 1, mem, addr,
                            validated, called)

\* The orders in which the addresses of a set are gone through.
Orders(addrs) ==
    {o \in [1..Cardinality(addrs) -> addrs] :
        \A i, j \in 1..Cardinality(addrs) : i # j => o[i] # o[j]}

\* validate_existing_memory(): the stored cells are validated one after
\* the other, in the order the memory yields them, from number i on.
RECURSIVE SweepExistingMemory(_, _, _, _, _, _)
SweepExistingMemory(registry, mem, order, i, validated, called) ==
    IF i > Len(order)
    THEN [err |-> "none", validated |-> validated, called |-> called]
    ELSE LET v == ValidateMemoryCell(registry, mem, validated, order[i], called)
         IN  IF v.err # "none" THEN v
             ELSE SweepExistingMemory(registry, mem, order, i + 1, v.validated,
                                      v.called)

\* The addresses that are written through the validated memory; the cells
\* of the program are stored already, in a segment without rules.
ValidatedAddrs == BuiltinAddrs

\* add_validation_rule(segment_index, rule)
AddValidationRule ==
    /\ ~in_step
    /\ \E segment_index \in RuleSegments, rule \in ValidationRuleNames :
        LET rules == IF segment_index \in DOMAIN validation_rules
                     THEN validation_rules[segment_index] ELSE << >>
        IN  /\ Len(rules) < MaxRules
            /\ validation_rules' =
                  DictSet(validation_rules, segment_index, Append(rules, rule))
    /\ result' = Ok("add_validation_rule")
    /\ ForgetStep
    /\ invoked' = << >>
    /\ UNCHANGED << memory, pc, ap, fp, trace, current_step, exec_scopes,
                    static_locals, hints, auto_deduction,
                    skip_instruction_execution, rule_env, in_step, hint_index,
                    step_hints, validated_addresses >>
    /\ UNCHANGED << loader_vars, tb, storage_vars >>

\* validated_memory[addr] = value: the cell is stored, then validated.
SetValidated ==
    /\ ~in_step
    /\ \E addr \in ValidatedAddrs, value \in FieldValues :
        IF ~MemSetOk(memory, addr, value)
        THEN /\ result' = Res("set", "InconsistentMemory", value, addr, memory[addr])
             /\ invoked' = << >>
             /\ UNCHANGED << memory, validated_addresses >>
        ELSE LET mem == MemSet(memory, addr, value)
                 v == ValidateMemoryCell(validation_rules, mem,
                                         validated_addresses, addr, << >>)
             IN  /\ memory' = mem
                 /\ validated_addresses' = v.validated
                 /\ invoked' = v.called
                 /\ result' = Res("set", v.err, value, addr, memory[addr])
    /\ ForgetStep
    /\ UNCHANGED << pc, ap, fp, trace, current_step, exec_scopes,
                    static_locals, hints, auto_deduction,
                    skip_instruction_execution, rule_env, in_step, hint_index,
                    step_hints, validation_rules >>
    /\ UNCHANGED << loader_vars, tb, storage_vars >>

\* vm.validate_existing_memory()
ValidateExistingMemory ==
    /\ ~in_step
    /\ \E order \in Orders(Written(memory)) :
        LET s == SweepExistingMemory(validation_rules, memory, order, 1,
                                     validated_addresses, << >>)
        IN  /\ validated_addresses' = s.validated
            /\ invoked' = s.called
            /\ result' = Res("validate_existing_memory", s.err, NoneV, NoneV,
                             NoneV)
    /\ ForgetStep
    /\ UNCHANGED << memory, pc, ap, fp, trace, current_step, exec_scopes,
                    static_locals, hints, auto_deduction,
                    skip_instruction_execution, rule_env, in_step, hint_index,
                    step_hints, validation_rules >>
    /\ UNCHANGED << loader_vars, tb, storage_vars >>

\* The interpreter: steps, and the scope calls and end_run between them.
Next ==
    \/ EnterScope
    \/ ExitScope
    \/ EndRun
    \/ StepBegin
    \/ StepHint
    \/ StepRun

Spec == Init /\ [][Next]_vars

\* The auto-deduction registry and the end-of-run verifier, with memory
\* written by the caller.
NextDeduction ==
    \/ SetMemory(UserAddrs)
    \/ AddAutoDeductionRule(Rules)
    \/ HostChange
    \/ Deduce(DeduceAddrs)
    \/ VerifyAutoDeductions
    \/ EndRun

SpecDeduction == Init /\ [][NextDeduction]_vars

\* end_run() after scope calls, with memory and rules that may disagree.
NextEndRun ==
    \/ EnterScope
    \/ ExitScope
    \/ SetMemory({RelV(BuiltinSegment, 0)})
    \/ AddAutoDeductionRule({"fixed"})
    \/ EndRun

SpecEndRun == Init /\ [][NextEndRun]_vars

\* Every writer of the memory: the caller, the hints, the instructions and
\* deduce_memory_cell.
NextMemory ==
    \/ SetMemory(HintAddrs)
    \/ AddAutoDeductionRule({"host"})
    \/ HostChange
    \/ Deduce({RelV(BuiltinSegment, 0)})
    \/ StepBegin
    \/ StepHint
    \/ StepRun

SpecMemory == Init /\ [][NextMemory]_vars

\* Tracebacks and the exceptions that carry them.
NextTraceback ==
    \/ GetTracebackEntries
    \/ WalkIteration
    \/ WalkReturn
    \/ AsVmExceptionCall
    \/ AsVmExceptionReturn

SpecTraceback == InitTraceback /\ [][NextTraceback]_vars

\* The limits of the range-check component, asked of any trace and memory.
NextRangeCheck ==
    \/ GetPermRangeCheckLimits

SpecRangeCheck == InitRangeCheck /\ [][NextRangeCheck]_vars

\* Calls on a DictStorage and on the CachedStorage that wraps it.
NextStorage ==
    \/ SetValue
    \/ GetValue
    \/ DelValue
    \/ SetnxValue

SpecStorage == Init /\ [][NextStorage]_vars

\* Calls on a CachedStorage that run concurrently.
NextCachedStorage ==
    \/ CachedSetValueCalled
    \/ CachedSetValueResumed
    \/ CachedGetValueCalled
    \/ UnderlyingGetValue
    \/ CachedGetValueResumed

SpecCachedStorage == Init /\ [][NextCachedStorage]_vars

\* Programs are loaded into a running VM, by the host and by hints.
NextLoad ==
    \/ LoadProgramCall
    \/ StepBegin
    \/ StepHintLoad
    \/ StepRun

SpecLoad == Init /\ [][NextLoad]_vars

\* A memory is built with or without rules, and validated as it stands.
NextValidation ==
    \/ AddValidationRule
    \/ SetValidated
    \/ ValidateExistingMemory

SpecValidation == Init /\ [][NextValidation]_vars

----------------------------------------------------------------------------
(* Properties.                                                              *)

\* C1: memory is write-once.  No step of the VM - a set by the caller, a
\* hint, an instruction or deduce_memory_cell - changes a cell that holds a
\* value; a set of a different value fails with InconsistentMemory (inside
\* step(), as the cause of the VmException) and leaves the memory as it was.
C1_WriteOnce ==
    [][ /\ \A a \in Addrs : memory[a] # NoneV => memory'[a] = memory[a]
        /\ result'.op \in {"set", "deduce_memory_cell"}
              => /\ result'.err \in {"none", "InconsistentMemory"}
                 /\ (result'.err = "none" /\ result'.ret # NoneV)
                       => /\ memory[result'.addr] \in {NoneV, result'.ret}
                          /\ memory' = [memory EXCEPT ![result'.addr] = result'.ret]
                 /\ result'.err = "InconsistentMemory"
                       => /\ memory[result'.addr] \notin {NoneV, result'.ret}
                          /\ memory' = memory
      ]_vars

\* A rule has deduced, for a cell that holds a value, another value, and
\* deduce_memory_cell has failed.
C1_Witness ==
    /\ result.op = "deduce_memory_cell"
    /\ result.err = "InconsistentMemory"
    /\ memory[result.addr] = result.cur
    /\ result.cur # NoneV

\* C2: the scope stack is never empty, between calls and in the middle of a
\* step; exit_scope on the main scope alone fails, called directly or by a
\* hint, and the main scope stays.
C2_ScopeStackNonEmpty ==
    /\ Len(exec_scopes) >= 1
    /\ (result.op = "exit_scope" /\ result.err # "none") => Len(exec_scopes) = 1
    /\ (result.op = "step" /\ result.cause = "AssertionError")
          => Len(exec_scopes) = 1

\* A hint has called vm_exit_scope with only the main scope on the stack.
C2_Witness ==
    /\ result.op = "step"
    /\ result.cause = "AssertionError"
    /\ Len(exec_scopes) = 1

\* C3 as stated: end_run succeeds only with exactly one scope, succeeds
\* after balanced scope calls when the auto-deductions are consistent, and
\* fails with UnbalancedScope whenever an entered scope has not been exited.
C3_AsStated ==
    result.op = "end_run" =>
        /\ result.err = "none" => Len(exec_scopes) = 1
        /\ (Len(exec_scopes) = 1
              /\ FailingAddrs(auto_deduction, rule_env, memory) = {})
                => result.err = "none"
        /\ Len(exec_scopes) > 1 => result.err = "UnbalancedScope"

\* C3, amended: end_run succeeds exactly when the auto-deductions are
\* consistent and the scope stack has one entry; with consistent
\* auto-deductions and an unexited scope it fails with UnbalancedScope; with
\* inconsistent auto-deductions it fails with InconsistentAutoDeduction,
\* whatever the scope stack, because the verifier runs first.
C3_EndRun ==
    result.op = "end_run" =>
        LET consistent == FailingAddrs(auto_deduction, rule_env, memory) = {}
        IN  /\ result.err = "none" <=> (Len(exec_scopes) = 1 /\ consistent)
            /\ (Len(exec_scopes) > 1 /\ consistent)
                  => result.err = "UnbalancedScope"
            /\ ~consistent => result.err = "InconsistentAutoDeduction"

\* end_run has been called with a scope that was entered and not exited.
C3_Witness ==
    /\ result.op = "end_run"
    /\ result.err = "UnbalancedScope"
    /\ Len(exec_scopes) = 2

\* step() has returned, and what its hints did.
StepDone == ~in_step /\ result.op = "step"
HintsRun == {i \in DOMAIN hint_log : hint_log[i].what = "hint"}
SkipAsked == \E i \in HintsRun : hint_log[i].skip
InstructionRun == \E i \in DOMAIN hint_log : hint_log[i].what = "instruction"

\* C4: when a hint sets skip_instruction_execution, step() returns right
\* after that hint: it is the last thing the step ran, no instruction was
\* run, the trace and pc, ap, fp are those of the start of the step, and the
\* memory differs from that of the start only in cells the hints wrote.
C4_SkipEndsStep ==
    (StepDone /\ SkipAsked) =>
        /\ ~InstructionRun
        /\ \A i \in HintsRun : hint_log[i].skip <=> i = Len(hint_log)
        /\ result = Ok("step")
        /\ pc = pre.pc /\ ap = pre.ap /\ fp = pre.fp
        /\ trace = pre.trace
        /\ \A a \in Addrs :
              memory[a] # pre.memory[a] => \E i \in HintsRun : hint_log[i].wrote = a

\* The first hint of the pc has written a cell and the second has asked for
\* the skip.
C4_Witness ==
    /\ StepDone
    /\ Len(hint_log) = 2
    /\ hint_log[1].wrote # NoneV
    /\ hint_log[2].skip
    /\ memory # pre.memory

\* C5: the trace has one entry per executed instruction.  A step that runs
\* its instruction appends one entry, holding the pc, ap and fp of the start
\* of the step, after the entries of the earlier steps; a step skipped by a
\* hint, or failed, appends none.
C5_TracePerInstruction ==
    /\ Len(trace) = current_step
    /\ StepDone =>
          IF InstructionRun /\ result.err = "none"
          THEN trace = Append(pre.trace, [pc |-> pre.pc, ap |-> pre.ap, fp |-> pre.fp])
          ELSE trace = pre.trace
    /\ (StepDone /\ SkipAsked) => trace = pre.trace

\* A step has been skipped after another one has run its instruction.
C5_Witness ==
    /\ StepDone
    /\ SkipAsked
    /\ Len(trace) = 1
    /\ trace[1].pc # pc

\* C6: within a step the hints of the pc run in list order, one at a time,
\* and the instruction runs after the last of them.
C6_HintOrder ==
    /\ \A i \in DOMAIN hint_log :
          IF hint_log[i].what = "hint"
          THEN /\ i <= Len(step_hints)
               /\ hint_log[i].index = i - 1
               /\ hint_log[i].hint = step_hints[i].compiled
          ELSE /\ i = Len(hint_log)
               /\ i = Len(step_hints) + 1
    /\ in_step => Len(hint_log) = hint_index

\* Both hints of a pc have run, and then its instruction.
C6_Witness ==
    /\ StepDone
    /\ Len(hint_log) = 3
    /\ hint_log[3].what = "instruction"
    /\ result.err = "none"

\* C7: the bindings handed to a hint bind ids, memory, ap, fp, pc and
\* current_step, and bind PRIME to the prime of the program.
C7_HintBindings ==
    HintsRun # {} =>
        /\ \A n \in {"ids", "memory", "ap", "fp", "pc", "current_step"} :
              hint_bindings[n] # Unbound
        /\ hint_bindings["PRIME"] = Bound("value", IntV(Prime))

\* The first hint of a run has run in the main scope of a VM whose caller
\* passed a PRIME of its own, and an ids, in static_locals and a PRIME of its
\* own in hint_locals.
C7_Witness ==
    /\ HintsRun # {}
    /\ trace = << >>
    /\ hint_log[1].depth = 1
    /\ static_locals["ids"] = Bound("caller", NoneV)
    /\ hint_bindings["ids"] = Bound("caller", NoneV)
    /\ hint_bindings["x"] = UserLocals["x"]

\* What deduce_memory_cell has just returned for a relocatable addr, against
\* the rules of addr's segment evaluated on the memory before the call.
C9_Outcome ==
    (result.op = "deduce_memory_cell" /\ IsRelocatable(result.addr)) =>
        LET addr == result.addr
            before == [memory EXCEPT ![addr] = result.cur]
            rules == RulesOf(auto_deduction, addr)
            firing == {i \in 1..Len(rules) :
                          RuleValue(rules[i], rule_env, before, addr) # NoneV}
            first == CHOOSE i \in firing : \A j \in firing : i <= j
            value == RuleValue(rules[first], rule_env, before, addr)
        IN  IF firing = {}
            THEN /\ result.ret = NoneV /\ result.err = "none"
                 /\ invoked = rules
                 /\ memory = before
            ELSE /\ invoked = SubSeq(rules, 1, first)
                 /\ IF result.cur \in {NoneV, value}
                    THEN /\ result.ret = value /\ result.err = "none"
                         /\ memory[addr] = value
                    ELSE /\ result.err = "InconsistentMemory"
                         /\ memory = before

\* C8: deduce_memory_cell(addr) for an addr that is not relocatable returns
\* None, calls no rule and leaves the memory as it was.
C8_NonRelocatable ==
    /\ [](  (result.op = "deduce_memory_cell" /\ ~IsRelocatable(result.addr))
              => /\ result.ret = NoneV /\ result.err = "none"
                 /\ invoked = << >>  )
    /\ [][ (result'.op = "deduce_memory_cell" /\ ~IsRelocatable(result'.addr))
              => memory' = memory ]_vars

\* deduce_memory_cell has been called for the int address, which holds no
\* value, with the "host" rule, which returns a value for any address,
\* registered.
C8_Witness ==
    /\ result.op = "deduce_memory_cell"
    /\ result.addr = IntV(0)
    /\ memory[IntV(0)] = NoneV
    /\ \E i \in DOMAIN auto_deduction[BuiltinSegment] :
            auto_deduction[BuiltinSegment][i] = "host"

\* C9: deduce_memory_cell(addr) for a relocatable addr calls the rules of
\* addr's segment in insertion order up to the first that returns a value;
\* that value is set in memory[addr] through the validated memory (a cell
\* holding another value makes the set fail with InconsistentMemory) and
\* returned; when no rule returns a value it returns None.  No other cell of
\* the memory changes.
C9_FirstRuleWins ==
    /\ []C9_Outcome
    /\ [][ result'.op = "deduce_memory_cell"
              => \A a \in Addrs \ {result'.addr} : memory'[a] = memory[a] ]_vars

\* Of two rules the second was not called: the first returned the value now
\* in memory.
C9_Witness ==
    /\ result.op = "deduce_memory_cell"
    /\ result.err = "none"
    /\ Len(RulesOf(auto_deduction, result.addr)) = 2
    /\ Len(invoked) = 1
    /\ result.cur = NoneV
    /\ memory[result.addr] = result.ret
    /\ result.ret # NoneV

\* C10: end_run (and verify_auto_deductions) succeeds only if every rule of
\* the segment of every written relocatable address returns None or the
\* value stored there; otherwise it fails with InconsistentAutoDeduction
\* carrying such an address, the value stored there and the differing value
\* of the first rule that differs.
C10_VerifyAutoDeductions ==
    result.op \in {"end_run", "verify_auto_deductions"} =>
        LET rules(a) == RulesOf(auto_deduction, a)
            value(a, i) == RuleValue(rules(a)[i], rule_env, memory, a)
            differs(a) == {i \in 1..Len(rules(a)) :
                              value(a, i) # NoneV /\ value(a, i) # memory[a]}
            checked == {a \in Addrs : memory[a] # NoneV /\ IsRelocatable(a)}
        IN  /\ result.err = "none" <=> \A a \in checked : differs(a) = {}
            /\ result.err # "none" =>
                  /\ result.err = "InconsistentAutoDeduction"
                  /\ result.addr \in checked
                  /\ result.cur = memory[result.addr]
                  /\ \E i \in differs(result.addr) :
                        /\ result.ret = value(result.addr, i)
                        /\ \A j \in differs(result.addr) : i <= j

\* A cell deduced by the second rule of its segment, whose rule now returns
\* another value: end_run fails on the second rule while the first returns
\* None.
C10_Witness ==
    /\ result.op = "end_run"
    /\ result.err = "InconsistentAutoDeduction"
    /\ result.addr = RelV(BuiltinSegment, 1)
    /\ RuleValue(RulesOf(auto_deduction, result.addr)[1], rule_env, memory,
                 result.addr) = NoneV
    /\ result.ret # result.cur

\* C11: get_traceback_entries ends after at most MAX_TRACEBACK_ENTRIES
\* iterations of its loop, whatever the memory holds: the loop never starts
\* iteration 21, each iteration records at most one entry, and the list
\* returned has at most 20 entries.
C11_WalkBounded ==
    /\ tb.iterations <= MAX_TRACEBACK_ENTRIES
    /\ Len(tb.entries) <= tb.iterations
    /\ (tb.caller # "none" /\ tb.iterations = MAX_TRACEBACK_ENTRIES) => WalkOver
    /\ (result.op = "get_traceback_entries" /\ result.err = "none")
          => Len(result.ret) <= MAX_TRACEBACK_ENTRIES

\* The saved frame pointers form a cycle: the walk has gone through it until
\* the limit and has returned 20 entries.
C11_Witness ==
    /\ result.op = "get_traceback_entries"
    /\ result.err = "none"
    /\ tb.why = "limit"
    /\ tb.iterations = MAX_TRACEBACK_ENTRIES
    /\ Len(result.ret) = MAX_TRACEBACK_ENTRIES
    /\ memory[RelV(ExecutionSegment, 2)] = InnerFp
    /\ memory[RelV(ExecutionSegment, 8)] = OuterFp

\* fp=(1,10), memory[(1,8)]=(1,4), memory[(1,9)]=(0,20), a call with its
\* immediate at (0,18) and (0,19), and memory[(1,2)]=(1,10).
C12_Example ==
    /\ fp = InnerFp
    /\ memory = TracebackMemory(InnerFp, NoneV, OuterFp, RelV(ProgramSegment, 20),
                                CallRelWord, OtherWord)

\* get_traceback_entries has returned its list.
Returned == result.op = "get_traceback_entries" /\ result.err = "none"

\* C12 as stated: on the example the walk is stopped at the outer frame by
\* the check memory[fp-2] = fp and returns [(0,18)].
C12_AsStated ==
    (Returned /\ C12_Example)
        => /\ result.ret = << RelV(ProgramSegment, 18) >>
           /\ tb.why = "outermost"
           /\ tb.last.fp = OuterFp

\* C12, amended: the list returned ends with the call of the current frame,
\* preceded by the call of the frame before it (most recent call last); the
\* walk stops without an entry at a frame whose memory[fp-2] equals fp, and
\* only there for that reason.  On the example the result is [(0,18)], and
\* the walk stops at the outer frame (1,4) because its return pc memory[(1,3)]
\* is absent: memory[(1,2)] = (1,10) is not the outer frame pointer.
C12_Traceback ==
    /\ Returned =>
          LET n == Len(result.ret)
              ret_pc == MemGet(memory, AddOff(fp, -1))
              prev_fp == MemGet(memory, AddOff(fp, -2))
          IN  /\ n >= 1 => result.ret[n] = CallPc(memory, ret_pc)
              /\ n >= 2 => result.ret[n - 1] =
                              CallPc(memory, MemGet(memory, AddOff(prev_fp, -1)))
    /\ tb.iterations > 0 =>
          /\ tb.why = "outermost" <=>
                MemGet(memory, AddOff(tb.last.fp, -2)) = tb.last.fp
          /\ tb.why = "outermost" =>
                tb.last.call_pc = NoneV /\ Len(tb.entries) = tb.iterations - 1
    /\ (Returned /\ C12_Example)
          => /\ result.ret = << RelV(ProgramSegment, 18) >>
             /\ tb.why = "absent"
             /\ tb.last.fp = OuterFp
             /\ tb.last.ret_pc = NoneV
             /\ tb.iterations = 2

\* The walk over the example has returned.
C12_Witness ==
    /\ Returned
    /\ C12_Example
    /\ result.ret = << RelV(ProgramSegment, 18) >>

\* The offsets of the instructions at the pcs of the trace.
TraceOffsets ==
    {decode_instruction_values(memory[trace[i].pc])[k] :
        i \in 1..Len(trace), k \in 2..4}

\* C13: get_perm_range_check_limits(trace, memory) returns the least and the
\* greatest of off0, off1 and off2 of the instructions at the pcs of the
\* trace ((1,2,3), (0,5,2), (4,4,4) give (0,5)); it raises for a pc that holds
\* no instruction and for the empty trace, which has no offsets; it leaves
\* the trace and the memory as they were.
C13_RangeCheckLimits ==
    /\ []( result.op = "get_perm_range_check_limits" =>
             IF \E i \in 1..Len(trace) : memory[trace[i].pc] = NoneV
             THEN result.err = "UnknownMemory"
             ELSE IF trace = << >>
             THEN result.err = "ValueError"
             ELSE /\ result.err = "none"
                  /\ result.ret.min \in TraceOffsets
                  /\ result.ret.max \in TraceOffsets
                  /\ \A o \in TraceOffsets : result.ret.min <= o /\ o <= result.ret.max
                  /\ TraceOffsets = {0, 1, 2, 3, 4, 5}
                        => result.ret = [min |-> 0, max |-> 5] )
    /\ [][ result'.op = "get_perm_range_check_limits"
              => memory' = memory /\ trace' = trace ]_vars

\* The limits of a trace through the three instructions (1,2,3), (0,5,2)
\* and (4,4,4), in this order.
C13_Witness ==
    /\ result.op = "get_perm_range_check_limits"
    /\ result.err = "none"
    /\ Len(trace) = 3
    /\ \A i \in 1..3 : trace[i].pc = RelV(ProgramSegment, i - 1)
    /\ memory[RelV(ProgramSegment, 0)] = Encode(1, 1, 2, 3)
    /\ memory[RelV(ProgramSegment, 1)] = Encode(2, 0, 5, 2)
    /\ memory[RelV(ProgramSegment, 2)] = Encode(0, 4, 4, 4)
    /\ result.ret = [min |-> 0, max |-> 5]

\* C14 as stated: setnx_value(key, value) returns true and stores value when
\* key is absent, and returns false and stores nothing when key is present.
C14_AsStated ==
    [][ result'.op = "setnx_value" =>
            IF result'.addr \in DOMAIN db
            THEN result'.ret = FalseV /\ db' = db
            ELSE result'.ret = TrueV /\ db' = DictSet(db, result'.addr, result'.cur)
      ]_vars

\* C14, amended: on DictStorage and on CachedStorage setnx_value(key, value)
\* raises NotImplementedError, whether key is present or absent; it returns
\* nothing and leaves the dictionary and the cache as they were.
C14_SetnxNotImplemented ==
    /\ [](result.op = "setnx_value"
            => result.err = "NotImplementedError" /\ result.ret = NoneV)
    /\ [][ result'.op = "setnx_value" => db' = db /\ cache' = cache ]_vars

\* setnx_value has been called on a DictStorage for a key that is absent,
\* next to a key that is present.
C14_Witness ==
    /\ result.op = "setnx_value"
    /\ result.cause = "DictStorage"
    /\ result.addr \notin DOMAIN db
    /\ DOMAIN db # {}

\* The frame at r_fp cannot be read: it is not the outermost frame, and its
\* saved frame pointer or its return pc is absent, or neither the cell
\* before the return pc alone nor the two cells before it encode a call.
Unreadable(r_fp) ==
    LET prev_fp == MemGet(memory, AddOff(r_fp, -2))
        ret_pc == MemGet(memory, AddOff(r_fp, -1))
        instruction0 == MemGet(memory, AddOff(ret_pc, -2))
        instruction1 == MemGet(memory, AddOff(ret_pc, -1))
    IN  /\ prev_fp # r_fp
        /\ \/ prev_fp = NoneV
           \/ ret_pc = NoneV
           \/ /\ ~(instruction1 # NoneV /\ is_call_instruction(instruction1, NoneV))
              /\ ~(instruction0 # NoneV /\ instruction1 # NoneV
                      /\ is_call_instruction(instruction0, instruction1))

\* C15: at the first frame that cannot be read the walk stops without an
\* entry for that frame, and get_traceback_entries returns, without raising,
\* the entries of the frames before it.
C15_StopsAtUnreadableFrame ==
    /\ (tb.iterations > 0 /\ Unreadable(tb.last.fp))
          => /\ tb.why \in {"absent", "no_call"}
             /\ tb.last.call_pc = NoneV
             /\ Len(tb.entries) = tb.iterations - 1
    /\ (tb.iterations > 0 /\ tb.why \in {"absent", "no_call"})
          => Unreadable(tb.last.fp)
    /\ (Returned /\ tb.why \in {"absent", "no_call"})
          => /\ Len(result.ret) = tb.iterations - 1
             /\ \A i \in 1..Len(result.ret) :
                    result.ret[i] = tb.entries[Len(tb.entries) + 1 - i]

\* The walk has recorded the call of one frame and has stopped at the next,
\* whose return pc follows no call; the one entry has been returned.
C15_Witness ==
    /\ Returned
    /\ tb.why = "no_call"
    /\ tb.iterations = 2
    /\ Len(result.ret) = 1

\* The cell before ret_pc alone encodes a call.
SingleWordCall(ret_pc) ==
    LET instruction1 == MemGet(memory, AddOff(ret_pc, -1))
    IN  instruction1 # NoneV /\ is_call_instruction(instruction1, NoneV)

\* The two cells before ret_pc encode a call with an immediate.
TwoWordCall(ret_pc) ==
    LET instruction0 == MemGet(memory, AddOff(ret_pc, -2))
        instruction1 == MemGet(memory, AddOff(ret_pc, -1))
    IN  /\ instruction0 # NoneV
        /\ instruction1 # NoneV
        /\ is_call_instruction(instruction0, instruction1)

\* C16: the entry the walk records for a frame is ret_pc - 1 whenever the
\* single-word reading is a call, also when the two-word reading is one too;
\* it is ret_pc - 2 only when the single-word reading is no call and the
\* two-word reading is.
C16_SingleWordPreferred ==
    (tb.iterations > 0 /\ tb.last.call_pc # NoneV) =>
        LET ret_pc == MemGet(memory, AddOff(tb.last.fp, -1))
            call_pc == tb.entries[Len(tb.entries)]
        IN  /\ Len(tb.entries) > 0
            /\ call_pc = tb.last.call_pc
            /\ SingleWordCall(ret_pc) => call_pc = AddOff(ret_pc, -1)
            /\ call_pc = AddOff(ret_pc, -2)
                  => (~SingleWordCall(ret_pc) /\ TwoWordCall(ret_pc))
            /\ call_pc \in {AddOff(ret_pc, -1), AddOff(ret_pc, -2)}

\* A frame whose return pc follows cells that are a call under both
\* readings has been walked, and the entry recorded is ret_pc - 1.
C16_Witness ==
    /\ tb.iterations > 0
    /\ tb.last.call_pc # NoneV
    /\ LET ret_pc == MemGet(memory, AddOff(tb.last.fp, -1))
       IN  /\ SingleWordCall(ret_pc)
           /\ TwoWordCall(ret_pc)
           /\ tb.entries[Len(tb.entries)] = AddOff(ret_pc, -1)

\* The address the load of the step that has just been taken was made at.
LoadedAt ==
    IF result'.op = "load_program" THEN result'.addr
    ELSE hint_log'[Len(hint_log')].at

\* What a step that assigns hint ids does: the ids before it keep their
\* entries, the new ids continue the count 0, 1, 2, ... above all of them,
\* and when the load returns each new id n is recorded with an address of the
\* program at its base and the position at which hints holds the hint
\* compiled as <hint n>.
C17_LoadStep ==
    LET old == hint_pc_and_index
        new == hint_pc_and_index'
        assigned == DOMAIN new \ DOMAIN old
    IN  /\ DOMAIN old \subseteq DOMAIN new
        /\ \A o \in DOMAIN old : new[o] = old[o]
        /\ \A n \in assigned : \A o \in DOMAIN old : n > o
        /\ assigned = Cardinality(DOMAIN old) .. (Cardinality(DOMAIN new) - 1)
        /\ \A n, m \in assigned : n # m => new[n] # new[m]
        /\ (assigned # {} /\ result'.err \in {"none", "running"}) =>
              \A n \in assigned :
                 LET entry == new[n]
                 IN  /\ entry.pc.seg = LoadedAt.seg
                     /\ entry.pc.off >= LoadedAt.off
                     /\ entry.pc \in DOMAIN hints'
                     /\ entry.index + 1 \in DOMAIN hints'[entry.pc]
                     /\ hints'[entry.pc][entry.index + 1] = CompiledHint(n)
                     /\ Len(hints'[entry.pc])
                          = Cardinality({m \in assigned : new[m].pc = entry.pc})

\* C17: load_hints gives every hint a fresh id, greater than every id given
\* before, so that the ids are 0, 1, 2, ... across all loads and none is
\* given twice, and records for it the address program_base + pc and the
\* position of the hint in the list it stores at that address.
C17_FreshHintIds ==
    /\ [](DOMAIN hint_pc_and_index
            = 0 .. (Cardinality(DOMAIN hint_pc_and_index) - 1))
    /\ [][C17_LoadStep]_vars

\* Two programs have been loaded after the one of the constructor, the
\* second over hints of an earlier load, and the hint with the last id is
\* where its entry says.
C17_Witness ==
    /\ result.op = "load_program"
    /\ result.err = "none"
    /\ Cardinality(DOMAIN hint_pc_and_index) = 7
    /\ LET entry == hint_pc_and_index[6]
       IN  /\ entry.pc = RelV(ProgramSegment, 1)
           /\ hints[entry.pc][entry.index + 1] = CompiledHint(6)

\* The step that has just been taken is a hint calling vm_load_program
\* with a program over a prime that is not the VM's.
HintLoadsForeign ==
    /\ Len(hint_log') = Len(hint_log) + 1
    /\ hint_log'[Len(hint_log')].what = "vm_load_program"
    /\ hint_log'[Len(hint_log')].prime # Prime

\* What a step that hands load_program a program over another prime does:
\* the call raises the assertion error (a hint's call ends the step with the
\* VmException that wraps it) and the four registries are as they were.
C18_LoadStep ==
    /\ (result'.op = "load_program" /\ result'.cur # IntV(Prime))
          => /\ result'.err = "AssertionError"
             /\ UNCHANGED << hints, hint_pc_and_index, instruction_debug_info,
                             debug_file_contents >>
    /\ HintLoadsForeign
          => /\ result' = VmException("step", "AssertionError", pc,
                                      IntV(hint_index))
             /\ ~in_step'
             /\ UNCHANGED << hints, hint_pc_and_index, instruction_debug_info,
                             debug_file_contents >>

\* C18: load_program, called by the host or by a hint as vm_load_program,
\* rejects a program whose prime is not the VM's, and then hints,
\* hint_pc_and_index, instruction_debug_info and debug_file_contents are
\* unchanged; a program over the VM's prime is not rejected for its prime.
C18_PrimeMismatchRejected ==
    /\ [](result.op = "load_program"
            => (result.err = "AssertionError" <=> result.cur # IntV(Prime)))
    /\ [][C18_LoadStep]_vars

\* A hint of a VM into which a second program has been loaded has called
\* vm_load_program with a program over another prime, and the step has
\* ended with the assertion error.
C18_Witness ==
    /\ result.op = "step"
    /\ result.cause = "AssertionError"
    /\ Len(hint_log) > 0
    /\ hint_log[Len(hint_log)].what = "vm_load_program"
    /\ hint_log[Len(hint_log)].prime = OtherPrime
    /\ Cardinality(DOMAIN hint_pc_and_index) = 5
    /\ RelV(ProgramSegment, 1) \in DOMAIN instruction_debug_info

\* The calls found by walking the frames of the run context from r_fp, in
\* the order the walk meets them.
RECURSIVE EntriesFrom(_, _, _)
EntriesFrom(r_fp, entries, n) ==
    IF n = MAX_TRACEBACK_ENTRIES THEN entries
    ELSE LET w == WalkFrame(memory, r_fp, entries)
         IN  IF w.why = "go" THEN EntriesFrom(w.fp, w.entries, n + 1)
             ELSE w.entries

\* The traceback reconstructed from the run context: None when the walk
\* finds no call.
ReconstructedTraceback ==
    LET found == EntriesFrom(fp, << >>, 0)
        entries == [i \in 1..Len(found) |-> found[Len(found) + 1 - i]]
    IN  IF entries = << >> THEN NoTraceback
        ELSE [present |-> TRUE,
              lines |-> [i \in 1..Len(entries) |->
                           [pc |-> entries[i],
                            location |-> IF entries[i] \in DOMAIN instruction_debug_info
                                         THEN instruction_debug_info[entries[i]]
                                         ELSE NoneV]]]

\* as_vm_exception has returned a VmException.
Wrapped == result.op = "as_vm_exception" /\ result.err = "none"

\* The pc, the location, the cause, the notes and the hint_index of the
\* VmException returned are those of the call.
C19_Captured ==
    LET e == result.ret
        at == IF tb.pc = NoneV THEN pc ELSE tb.pc
    IN  /\ e.pc = at
        /\ e.inst_location = IF at \in DOMAIN instruction_debug_info
                              THEN instruction_debug_info[at] ELSE NoneV
        /\ e.inner_exc = tb.exc
        /\ e.notes = tb.notes
        /\ e.hint_index = tb.hint_index

\* C19 as stated: every VmException of as_vm_exception carries the pc, the
\* location, the cause, the notes, the hint_index and the traceback
\* reconstructed from the run context, whether or not a pc was specified.
C19_AsStated ==
    Wrapped => /\ C19_Captured
               /\ result.ret.traceback = ReconstructedTraceback

\* C19: every VmException of as_vm_exception carries the pc (the current pc
\* when none is specified), the location registered for it, the cause, the
\* notes and the hint_index; it carries the traceback reconstructed from the
\* run context when no pc was specified, and no traceback when one was.
C19_VmExceptionCaptures ==
    Wrapped => /\ C19_Captured
               /\ result.ret.traceback =
                     IF tb.pc = NoneV THEN ReconstructedTraceback
                     ELSE NoTraceback

\* as_vm_exception has been called with a pc that has a location, for a run
\* context from which a traceback can be reconstructed, and the exception
\* it has returned carries none.
C19_Witness ==
    /\ Wrapped
    /\ tb.pc = RelV(ProgramSegment, 18)
    /\ result.ret.inst_location # NoneV
    /\ result.ret.notes = NoNotes
    /\ ReconstructedTraceback.present
    /\ result.ret.traceback = NoTraceback

\* The memory before anything is stored.
NothingStored == [a \in Addrs |-> NoneV]

\* The cells of mem stored one after the other in a given order through a
\* validated memory that has the rules from the start: each set stores the
\* cell and validates it, and the first rejection ends the run.
RECURSIVE SetEach(_, _, _, _, _, _)
SetEach(registry, mem, order, i, built, validated) ==
    IF i > Len(order) THEN [err |-> "none", validated |-> validated]
    ELSE LET stored == MemSet(built, order[i], mem[order[i]])
             v == ValidateMemoryCell(registry, stored, validated, order[i], << >>)
         IN  IF v.err # "none" THEN [err |-> v.err, validated |-> v.validated]
             ELSE SetEach(registry, mem, order, i + 1, stored, v.validated)

\* What the two ways of validating mem come to, each for one order.
OnEachSet(registry, mem, order) ==
    SetEach(registry, mem, order, 1, NothingStored, {})
AtOnce(registry, mem, order) ==
    SweepExistingMemory(registry, mem, order, 1, {}, << >>)

\* Two validations end alike: both raise, or both return with the same
\* validated addresses.
SameVerdict(x, y) ==
    /\ (x.err = "none") <=> (y.err = "none")
    /\ x.err = "none" => x.validated = y.validated

\* The memories that are built through ValidatedAddrs.
BuiltMemories ==
    {[a \in Addrs |-> IF a \in ValidatedAddrs THEN cells[a] ELSE NoneV] :
        cells \in [ValidatedAddrs -> FieldValues \cup {NoneV}]}

\* The registered rules are commutative: the order in which the cells of a
\* memory go through them changes neither the verdict nor the validated
\* addresses, be it the order of the sets or the order of the sweep.
Commutative(registry) ==
    \A mem \in BuiltMemories :
        \A o1, o2 \in Orders(Written(mem)) :
            /\ SameVerdict(OnEachSet(registry, mem, o1), OnEachSet(registry, mem, o2))
            /\ SameVerdict(AtOnce(registry, mem, o1), AtOnce(registry, mem, o2))

\* The calls of a sweep go to no address that was validated before its
\* turn came: the rules of an address are called in one go, and when the
\* first of them is called the address is not in the validated set.
NoRevalidation(called) ==
    \A i \in 1..Len(called) :
        /\ \A j \in 1..i :
              called[j].addr = called[i].addr
                 => \A k \in j..i : called[k].addr = called[i].addr
        /\ (i = 1 \/ called[i - 1].addr # called[i].addr)
              => called[i].addr \notin called[i].validated

\* The step that has just been taken is validate_existing_memory() on a
\* memory of which nothing had been validated.
SweepsBuiltMemory ==
    /\ result'.op = "validate_existing_memory"
    /\ validated_addresses = {}

\* What validate_existing_memory does with a built memory under commutative
\* rules: it accepts or rejects it as the sets would have, whatever their
\* order, and on acceptance it leaves the validated addresses they would
\* have left; no rule is called for an address that is validated already.
C20_SweepStep ==
    /\ (SweepsBuiltMemory /\ Commutative(validation_rules)) =>
          \A order \in Orders(Written(memory)) :
             LET each == OnEachSet(validation_rules, memory, order)
             IN  /\ (each.err = "none") <=> (result'.err = "none")
                 /\ each.err = "none" => each.validated = validated_addresses'
    /\ result'.op = "validate_existing_memory" => NoRevalidation(invoked')

\* C20: for commutative validation rules, validate_existing_memory() over a
\* built memory accepts or rejects the memory exactly as validation on each
\* set does and, when they accept, ends with the same validated addresses;
\* it runs no rule on an address that is in the validated set.
C20_SweepEquivalent == [][C20_SweepStep]_vars

\* A memory with both cells of a pair has been built without rules, the
\* range check and the pair rule have been registered, and
\* validate_existing_memory() has accepted it: the rules ran on the first
\* cell of the sweep, which vetted the pair, and not on the second.
C20_Witness ==
    /\ result.op = "validate_existing_memory"
    /\ result.err = "none"
    /\ BuiltinSegment \in DOMAIN validation_rules
    /\ validation_rules[BuiltinSegment] = << "pair", "range_check" >>
    /\ Commutative(validation_rules)
    /\ validated_addresses = BuiltinAddrs
    /\ Len(invoked) = 2
    /\ invoked[1].validated = {}

\* The step that has just been taken is the execution of a hint.
HintExecuted ==
    /\ Len(hint_log') = Len(hint_log) + 1
    /\ hint_log'[Len(hint_log')].what = "hint"

\* What the execution of a hint does with the scopes.  The hint runs in
\* the scope that is on top when it starts: it is handed the variables of
\* that scope.  When it pushes a scope, its own bindings stay in the scope
\* it started in, the scopes below are untouched, and the new scope on top
\* holds the new_scope_locals and the builtin runners only, nothing of the
\* scope below.  When it pops a scope, the scopes that remain are as they
\* were.
C21_HintStep ==
    HintExecuted =>
        LET depth == Len(exec_scopes)
            top == exec_scopes[depth]
        IN  /\ hint_log'[Len(hint_log')].depth = depth
            /\ \A n \in UserNames \cup BuiltinNames : hint_bindings'[n] = top[n]
            /\ Len(exec_scopes') = depth + 1 =>
                  /\ \A i \in 1..(depth - 1) : exec_scopes'[i] = exec_scopes[i]
                  /\ exec_scopes'[depth] = Del(Del(hint_bindings', "ids"), "memory")
                  /\ \E l \in NewScopeLocals :
                        \A n \in Names :
                           exec_scopes'[depth + 1][n] =
                              IF n \in BuiltinNames THEN builtin_runners[n]
                              ELSE l[n]
            /\ Len(exec_scopes') = depth - 1 =>
                  \A i \in 1..(depth - 1) : exec_scopes'[i] = exec_scopes[i]

\* C21: a scope pushed by a hint starts only from the next hint: the hint
\* that pushes it runs on in the scope that was on top when it started, the
\* next hint runs in the new scope, which holds the new_scope_locals and the
\* builtin runners and no variable of an outer scope; after a hint has
\* popped a scope the next hint runs in the scope below, whose bindings are
\* as they were.
C21_ScopeFromNextHint == [][C21_HintStep]_vars

\* The first hint of a pc has pushed an empty scope from a main scope that
\* binds x, and the second hint of the pc has run in the new scope, where x
\* is not bound.
C21_Witness ==
    /\ Len(hint_log) = 2
    /\ hint_log[1].what = "hint" /\ hint_log[1].depth = 1
    /\ hint_log[2].what = "hint" /\ hint_log[2].depth = 2
    /\ exec_scopes[1]["x"] # Unbound
    /\ exec_scopes[1]["pc"] # Unbound
    /\ hint_bindings["x"] = Unbound

\* step() has failed in its hint loop: it has not reached the instruction.
HintFailed == StepDone /\ result.err # "none" /\ ~InstructionRun

\* C22: when a hint raises, step() fails with a VmException at the current
\* pc whose hint_index is the position of that hint in the list of the pc;
\* the hint is the last thing the step ran, no instruction was decoded or
\* run, and the trace and pc, ap, fp are those of the start of the step.
C22_HintRaises ==
    /\ HintFailed =>
          /\ result.err = "VmException"
          /\ result.cause \in {"HintRaised", "AssertionError", "InconsistentMemory"}
          /\ Len(hint_log) >= 1
          /\ Len(hint_log) <= Len(step_hints)
          /\ \A i \in DOMAIN hint_log :
                hint_log[i].what = "hint" /\ hint_log[i].index = i - 1
          /\ result.ret = IntV(Len(hint_log) - 1)
          /\ hint_log[Len(hint_log)].hint
                = HintsAt(hints, pre.pc)[Len(hint_log)].compiled
          /\ result.addr = pre.pc
          /\ pc = pre.pc /\ ap = pre.ap /\ fp = pre.fp
          /\ trace = pre.trace
          /\ Len(trace) = current_step
    /\ (StepDone /\ result.err # "none" /\ InstructionRun) =>
          Len(hint_log) = Len(step_hints) + 1

\* The second hint of a pc has raised, after the first had written a cell.
C22_Witness ==
    /\ HintFailed
    /\ result.cause = "HintRaised"
    /\ result.ret = IntV(1)
    /\ Len(hint_log) = 2
    /\ Len(step_hints) = 2
    /\ hint_log[1].wrote # NoneV
    /\ memory # pre.memory

\* C23 as stated: every entry hint_id -> (pc, index) of hint_pc_and_index
\* refers to an existing hint: hints[pc] exists, has an element at position
\* index, and that element is the hint that was given the id.
C23_AsStated ==
    \A hint_id \in DOMAIN hint_pc_and_index :
        LET entry == hint_pc_and_index[hint_id]
        IN  /\ entry.pc \in DOMAIN hints
            /\ entry.index + 1 \in DOMAIN hints[entry.pc]
            /\ hints[entry.pc][entry.index + 1] = CompiledHint(hint_id)

\* C23: after any sequence of load_program calls every hint that hints
\* holds was given an id of its own, and the entry of that id in
\* hint_pc_and_index is the pc and the position at which hints holds it.
C23_StoredHintsHaveEntries ==
    \A at \in DOMAIN hints :
        \A i \in DOMAIN hints[at] :
            LET hint_id == hints[at][i].compiled
            IN  /\ hint_id \in DOMAIN hint_pc_and_index
                /\ hint_pc_and_index[hint_id] = [pc |-> at, index |-> i - 1]

\* A program with one hint at the first pc has been loaded over the two
\* hints the constructor had loaded there: the entries of the ids 0 and 1
\* still name that pc, which now holds the hint with the id 3 alone.
C23_Witness ==
    /\ result.op = "load_program"
    /\ result.err = "none"
    /\ hint_pc_and_index[0] = [pc |-> program_base, index |-> 0]
    /\ hint_pc_and_index[1] = [pc |-> program_base, index |-> 1]
    /\ hints[program_base] = << CompiledHint(3) >>
    /\ hint_pc_and_index[3] = [pc |-> program_base, index |-> 0]

\* C24: a skip request lasts for one step.  step() clears the flag before
\* it runs a hint and takes the hints of the pc from their start, so within
\* a step the flag is set only once a hint of that step has set it, and a
\* step that returns without error has run the instruction unless one of
\* its own hints asked for the skip, also when the step before it was
\* skipped.
C24_SkipLastsOneStep ==
    /\ []((in_step \/ StepDone) => (skip_instruction_execution <=> SkipAsked))
    /\ []((StepDone /\ result.err = "none") => (InstructionRun <=> ~SkipAsked))
    /\ [][(~in_step /\ in_step') =>
              /\ ~skip_instruction_execution'
              /\ pre'.skip = skip_instruction_execution
              /\ pre'.pc = pc
              /\ step_hints' = HintsAt(hints, pc)
              /\ hint_index' = 0
              /\ hint_log' = << >>]_vars

\* step() has been called again after a step whose hint asked for the
\* skip: it found the flag set and has cleared it, no instruction has been
\* executed so far, the pc is the one of the skipped step, and the hint
\* loop is about to run the two hints of that pc from the first.
C24_Witness ==
    /\ in_step /\ pre.skip /\ ~skip_instruction_execution
    /\ pre.trace = << >> /\ trace = << >>
    /\ pre.pc = pc /\ pc = program_base
    /\ hint_index = 0 /\ hint_log = << >>
    /\ Len(step_hints) = 2


\* A scope that binds ids or memory.
HoldsHintBindings(scope) == scope["ids"] # Unbound \/ scope["memory"] # Unbound

\* The scope in which entry i of the hint loop ran is still on the stack:
\* nothing that ran after it in the step has popped it.
StillOnStack(i) ==
    /\ hint_log[i].depth <= Len(exec_scopes)
    /\ \A j \in DOMAIN hint_log :
          j > i => hint_log[j].depth >= hint_log[i].depth

\* A hint that has finished without raising was handed ids and memory, and
\* the scope it started in, when still on the stack, binds neither.
C26_HintStep ==
    (HintExecuted /\ result'.err = "none") =>
        LET depth == Len(exec_scopes)
        IN  /\ hint_bindings'["ids"] # Unbound
            /\ hint_bindings'["memory"] # Unbound
            /\ Len(exec_scopes') >= depth =>
                  ~HoldsHintBindings(exec_scopes'[depth])

\* C26 as stated: after a step() that has returned without error no scope
\* on the stack binds ids or memory.
C26_AsStated ==
    (StepDone /\ result.err = "none") =>
        \A d \in DOMAIN exec_scopes : ~HoldsHintBindings(exec_scopes[d])

\* C26: after a step() that has returned without error, executed or
\* skipped, no scope in which a hint of that step ran binds ids or memory:
\* the two bindings installed for a hint are deleted from the scope it
\* started in once the hint has finished.
C26_HintBindingsRemoved ==
    /\ []((StepDone /\ result.err = "none") =>
            \A i \in HintsRun :
                StillOnStack(i) =>
                    ~HoldsHintBindings(exec_scopes[hint_log[i].depth]))
    /\ [][C26_HintStep]_vars

\* A step has returned without error in a VM whose static locals bind ids:
\* its first hint pushed a scope, its second hint ran in the new scope and
\* was handed ids, and neither of the two scopes binds ids or memory.
C26_Witness ==
    /\ StepDone /\ result.err = "none"
    /\ static_locals["ids"] # Unbound
    /\ Len(hint_log) >= 2
    /\ hint_log[1].what = "hint" /\ hint_log[1].depth = 1
    /\ hint_log[2].what = "hint" /\ hint_log[2].depth = 2
    /\ hint_bindings["ids"] # Unbound
    /\ Len(exec_scopes) = 2
    /\ ~HoldsHintBindings(exec_scopes[1])
    /\ ~HoldsHintBindings(exec_scopes[2])

\* Every call that was made has returned.
Quiescent == \A t \in Tasks : tasks[t].at \in {"idle", "done"}

\* The set_value calls made so far, and the items being immutable: a key
\* is only ever set to one value.
SetCalls == {t \in Tasks : tasks[t].op = "set_value"}
ImmutableItems ==
    \A t \in SetCalls, u \in SetCalls :
        tasks[t].key = tasks[u].key => tasks[t].value = tasks[u].value

\* Every key in the cache has the value the underlying storage holds.
CacheAgrees ==
    \A key \in CacheKeys(cache) :
        cache[CacheGet(cache, key)].value = DbGet(db, key)

\* Every value a get_value call has returned is the value the underlying
\* storage holds.
GetsAgree ==
    \A t \in Tasks :
        (tasks[t].op = "get_value" /\ tasks[t].at = "done"
            /\ tasks[t].ret # NoneV) => tasks[t].ret = DbGet(db, tasks[t].key)

\* C25 as stated: under every interleaving of concurrent set_value and
\* get_value calls, once all calls have returned every key in the cache has
\* the value of the underlying storage and no get_value has returned
\* another value.
C25_AsStated == Quiescent => (CacheAgrees /\ GetsAgree)

\* C25: for immutable items, where a key is only ever set to one value,
\* under every interleaving of concurrent set_value and get_value calls,
\* once all calls have returned every key in the cache has the value of
\* the underlying storage, and no get_value has returned another value.
C25_CacheCoherent == (Quiescent /\ ImmutableItems) => (CacheAgrees /\ GetsAgree)

\* A get_value missed the cache and was suspended; a set_value of the same
\* key started while it waited; the get_value then returned the value
\* from the underlying storage and cached it, and a later call was made
\* as well.  All calls have returned and the items are immutable.
C25_Witness ==
    /\ Quiescent /\ ImmutableItems
    /\ tasks[1].op = "get_value" /\ tasks[1].at = "done"
    /\ tasks[1].ret # NoneV /\ tasks[1].value = tasks[1].ret
    /\ tasks[2].op = "set_value" /\ tasks[2].at = "done"
    /\ tasks[2].overlapped
    /\ tasks[2].key = tasks[1].key
    /\ tasks[1].key \in CacheKeys(cache)
    /\ tasks[3].at = "done"
====
